---- MODULE Spec2Model ----
(***************************************************************************)
(* Model of the Codex CLI orchestrator: the process-wide ProcessSemaphore  *)
(* (security.ts) and the callCodex state machine (codex/client.ts) with    *)
(* its racing stdout/stderr/error/close/stdin/timer callbacks.             *)
(***************************************************************************)
EXTENDS Integers, Sequences, FiniteSets, TLC

\* ---------------------------------------------------------------- bounds
NumCalls == 2          \* concurrent callCodex invocations in Spec
NumClients == 3        \* direct users of a ProcessSemaphore in SemSpec
MaxConcurrent == 1     \* largest maxConcurrentProcesses tried in Spec (config: 1..10)
SemMax == 2            \* largest maxConcurrent tried in SemSpec
MaxTickets == 5        \* acquire() calls made in one behaviour of SemSpec
MaxChunks == 2         \* 'data' events (both channels) of the call of CallSpec
SharedChunks == 1      \* 'data' events (both channels, all calls) in Spec
MaxTexts == 2          \* 'data' events (both channels) of the call of TextSpec
MaxLines == 3          \* lines of a stream given to parseJsonlStream
MaxGates == 2          \* initSemaphore calls in one behaviour of GateSpec
MaxStray == 1          \* how far release() calls of non-holders may run ahead in StraySpec

\* client.ts: const MAX_OUTPUT_SIZE = 1024 * 1024
MAX_OUTPUT_SIZE == 1048576

Calls == 1..NumCalls
Clients == 1..NumClients

VARIABLES
  semaphore,   \* client.ts: module-level gate is set (TRUE) or null (FALSE)
  max,         \* ProcessSemaphore.max
  current,     \* ProcessSemaphore.current
  waitQueue,   \* ProcessSemaphore.waitQueue: callers in push order
  pc,          \* position of every caller: idle / waiting / granted / spawned
  arrival,     \* ghost: ticket of every caller's latest acquire()
  nextTicket,  \* ghost: ticket of the next acquire() call
  via,         \* ghost: how a caller got its slot: none / direct / handoff
  call,        \* per callCodex invocation: the closure state of its promise executor
  chunksLeft,  \* number of 'data' events still to be delivered
  emits,       \* the chunks the codex process may write in this behaviour
  input,       \* the arguments of the operation exercised on its own
  output       \* its result (<<>> before it has run)

\* the callers of the behaviour: Calls in Spec, one call in CallSpec, Clients in SemSpec
Active == DOMAIN pc

semVars == <<semaphore, max, current, waitQueue>>
ghostVars == <<arrival, nextTicket, via>>
callVars == <<semaphore, max, current, waitQueue, pc, arrival, nextTicket, via, call, chunksLeft, emits>>
vars == <<semaphore, max, current, waitQueue, pc, arrival, nextTicket, via, call, chunksLeft, emits,
          input, output>>

\* ------------------------------------------------ ProcessSemaphore
\* get activeCount / get waitingCount
activeCount == current
waitingCount == Len(waitQueue)

\* acquire(): the test "this.current < this.max"
hasFreeSlot_offByOne == current <= max
hasFreeSlot == current < max

\* release(): "this.waitQueue.shift()" takes the longest-waiting caller
shift_asPop ==
  [next |-> waitQueue[Len(waitQueue)], rest |-> SubSeq(waitQueue, 1, Len(waitQueue) - 1)]
shift == [next |-> Head(waitQueue), rest |-> Tail(waitQueue)]

\* acquire() by caller c: take a slot at once, or queue a waiter closure
acquire(c) ==
  /\ arrival' = [arrival EXCEPT ![c] = nextTicket]
  /\ nextTicket' = nextTicket + 1
  /\ IF hasFreeSlot
       THEN /\ current' = current + 1
            /\ waitQueue' = waitQueue
            /\ pc' = [pc EXCEPT ![c] = "granted"]
            /\ via' = [via EXCEPT ![c] = "direct"]
       ELSE /\ current' = current
            /\ waitQueue' = Append(waitQueue, c)
            /\ pc' = [pc EXCEPT ![c] = "waiting"]
            /\ via' = [via EXCEPT ![c] = "none"]

\* release(): current--, then the shifted waiter (if any) runs: current++, resolve()
releaseCurrent == IF waitQueue = <<>> THEN current - 1 ELSE (current - 1) + 1
releaseQueue == IF waitQueue = <<>> THEN waitQueue ELSE shift.rest
releasePc_noWake(p) == p
releasePc(p) == IF waitQueue = <<>> THEN p ELSE [p EXCEPT ![shift.next] = "granted"]
releaseVia(v) == IF waitQueue = <<>> THEN v ELSE [v EXCEPT ![shift.next] = "handoff"]

\* ------------------------------------------------ text
\* A text is a sequence of tokens: "SP" and "NL" stand for a blank and a line
\* break, every other token for a run of non-blank characters.
Whitespace == {"SP", "NL"}

\* String.prototype.trim()
RECURSIVE trimStart(_)
trimStart(s) == IF s # <<>> /\ Head(s) \in Whitespace THEN trimStart(Tail(s)) ELSE s

RECURSIVE trimEnd(_)
trimEnd(s) ==
  IF s # <<>> /\ s[Len(s)] \in Whitespace THEN trimEnd(SubSeq(s, 1, Len(s) - 1)) ELSE s

trim(s) == trimEnd(trimStart(s))

\* Buffer.concat(chunks).toString('utf-8')
RECURSIVE concat(_)
concat(chunks) == IF chunks = <<>> THEN <<>> ELSE Head(chunks) \o concat(Tail(chunks))

\* String.prototype.toLowerCase(), token by token
toLowerCase(tok) ==
  CASE tok = "Authentication" -> "authentication"
    [] tok = "Not Found" -> "not found"
    [] OTHER -> tok

\* lower.includes(keyword), lower = message.toLowerCase()
includes(message, keyword) ==
  \E i \in 1..Len(message) : toLowerCase(message[i]) = keyword

\* raw.split('\n')
RECURSIVE split(_)
split(raw) ==
  IF \E i \in 1..Len(raw) : raw[i] = "NL"
    THEN LET i == CHOOSE j \in 1..Len(raw) :
                    raw[j] = "NL" /\ \A k \in 1..(j - 1) : raw[k] # "NL"
         IN <<SubSeq(raw, 1, i - 1)>> \o split(SubSeq(raw, i + 1, Len(raw)))
    ELSE <<raw>>

\* ------------------------------------------------ parser.ts
\* an event's item: absent (no 'item' key), null, or an object with a type and
\* the one field the reducers read (text, path or command)
NoItem == [kind |-> "absent", type |-> "", val |-> ""]
NullItem == [kind |-> "null", type |-> "", val |-> ""]
Item(type, val) == [kind |-> "object", type |-> type, val |-> val]

\* the tokens that are one complete JSON value, and JSON.parse of each
JsonTexts ==
  { "{completed agent_message m1}", "{completed agent_message m2}",
    "{started agent_message m3}",
    "{completed file_change f1}", "{completed file_change f2}",
    "{started file_change f3}",
    "{completed command_execution c1}",
    "{turn.completed}", "{typeless}", "{completed item:null}" }

JSON_parse(tok) ==
  CASE tok = "{completed agent_message m1}" ->
         [type |-> "item.completed", item |-> Item("agent_message", "m1")]
    [] tok = "{completed agent_message m2}" ->
         [type |-> "item.completed", item |-> Item("agent_message", "m2")]
    [] tok = "{started agent_message m3}" ->
         [type |-> "item.started", item |-> Item("agent_message", "m3")]
    [] tok = "{completed file_change f1}" ->
         [type |-> "item.completed", item |-> Item("file_change", "f1")]
    [] tok = "{completed file_change f2}" ->
         [type |-> "item.completed", item |-> Item("file_change", "f2")]
    [] tok = "{started file_change f3}" ->
         [type |-> "item.started", item |-> Item("file_change", "f3")]
    [] tok = "{completed command_execution c1}" ->
         [type |-> "item.completed", item |-> Item("command_execution", "c1")]
    [] tok = "{turn.completed}" -> [type |-> "turn.completed", item |-> NoItem]
    [] tok = "{completed item:null}" -> [type |-> "item.completed", item |-> NullItem]
    [] OTHER -> [type |-> "", item |-> NoItem]        \* "{typeless}": no string type

\* parseJsonlLine(line): the event, or no event (null) as the empty sequence
parseJsonlLine_noTrim(line) ==
  IF line = <<>> THEN <<>>
  ELSE IF Len(line) # 1 \/ line[1] \notin JsonTexts THEN <<>>
  ELSE IF JSON_parse(line[1]).type = "" THEN <<>>
  ELSE <<JSON_parse(line[1])>>
parseJsonlLine(line) ==
  LET trimmed == trim(line)
  IN IF trimmed = <<>> THEN <<>>
     ELSE IF Len(trimmed) # 1 \/ trimmed[1] \notin JsonTexts THEN <<>>  \* JSON.parse throws
     ELSE IF JSON_parse(trimmed[1]).type = "" THEN <<>>
     ELSE <<JSON_parse(trimmed[1])>>

\* parseJsonlStream(raw)
RECURSIVE mapParseJsonlLine(_)
mapParseJsonlLine(lines) ==
  IF lines = <<>> THEN <<>>
  ELSE parseJsonlLine(Head(lines)) \o mapParseJsonlLine(Tail(lines))

parseJsonlStream(raw) == mapParseJsonlLine(split(raw))

\* the type guards
isItemEvent(event) ==
  event.type \in {"item.started", "item.completed"} /\ event.item.kind # "absent"
isAgentMessage(item) == item.type = "agent_message"
isFileChange(item) == item.type = "file_change"
isCommandExecution(item) == item.type = "command_execution"

\* the items the reducers look at: those of the item.completed events
RECURSIVE completedItems(_)
completedItems(events) ==
  IF events = <<>> THEN <<>>
  ELSE (IF isItemEvent(Head(events)) /\ Head(events).type = "item.completed"
          THEN <<Head(events).item>> ELSE <<>>) \o completedItems(Tail(events))

\* a guard reads item.type: a TypeError when the item is null
guardThrows(events) ==
  \E i \in 1..Len(completedItems(events)) : completedItems(events)[i].kind = "null"

RECURSIVE valuesOf(_, _)
valuesOf(items, type) ==
  IF items = <<>> THEN <<>>
  ELSE (IF Head(items).type = type THEN <<Head(items).val>> ELSE <<>>)
         \o valuesOf(Tail(items), type)

\* [...new Set(files)]: first occurrences, in order
RECURSIVE dedupe(_)
dedupe(xs) ==
  IF xs = <<>> THEN <<>>
  ELSE LET init == SubSeq(xs, 1, Len(xs) - 1)
           last == xs[Len(xs)]
       IN IF \E i \in 1..Len(init) : init[i] = last
            THEN dedupe(init) ELSE Append(dedupe(init), last)

\* extractFinalMessage: agentMessages.at(-1) ?? ''
extractFinalMessage(events) ==
  LET agentMessages == valuesOf(completedItems(events), "agent_message")
  IN IF agentMessages = <<>> THEN <<>> ELSE <<agentMessages[Len(agentMessages)]>>

extractFilesChanged(events) == dedupe(valuesOf(completedItems(events), "file_change"))

extractCommandsRun(events) == valuesOf(completedItems(events), "command_execution")

buildCodexResult(events) ==
  [ events |-> events,
    finalMessage |-> extractFinalMessage(events),
    filesChanged |-> extractFilesChanged(events),
    commandsRun |-> extractCommandsRun(events) ]

\* ------------------------------------------------ security.ts: sanitizeErrorOutput
\* The patterns read a text character by character. An element of a text that
\* is not one of the characters below (a keyword, a JSON value, the placeholder)
\* is a symbol that is not blank, not '/', and in no other character class.
LowerCase ==
  << "a", "b", "c", "d", "e", "f", "g", "h", "i", "j", "k", "l", "m",
     "n", "o", "p", "q", "r", "s", "t", "u", "v", "w", "x", "y", "z" >>
UpperCase ==
  << "A", "B", "C", "D", "E", "F", "G", "H", "I", "J", "K", "L", "M",
     "N", "O", "P", "Q", "R", "S", "T", "U", "V", "W", "X", "Y", "Z" >>

\* the character classes of SENSITIVE_PATTERNS, named as they are written (\w is
\* the class that decides \b)
inClass(class, c) ==
  LET alnum == \/ \E i \in 1..Len(LowerCase) : c = LowerCase[i]
               \/ \E i \in 1..Len(UpperCase) : c = UpperCase[i]
               \/ c \in {"0", "1", "2", "3", "4", "5", "6", "7", "8", "9"}
  IN CASE class = "[A-Za-z0-9]" -> alnum
       [] class = "\\w" -> alnum \/ c = "_"
       [] class = "[^/\\s]" -> c \notin Whitespace /\ c # "/"
       [] class = "[A-Za-z0-9._%+-]" -> alnum \/ c \in {".", "_", "%", "+", "-"}
       [] class = "[A-Za-z0-9.-]" -> alnum \/ c \in {".", "-"}
       [] class = "\\S" -> c \notin Whitespace
       [] class = "[A-Za-z0-9_-]" -> alnum \/ c \in {"_", "-"}

\* the i flag: letters compared without regard to case
foldCase(c) ==
  IF \E i \in 1..Len(UpperCase) : c = UpperCase[i]
    THEN LowerCase[CHOOSE i \in 1..Len(UpperCase) : c = UpperCase[i]]
    ELSE c

\* the length of the longest run of characters of a class that starts at i
run(class, text, i) ==
  IF i > Len(text) THEN 0
  ELSE IF \E j \in i..Len(text) : ~inClass(class, text[j])
    THEN (CHOOSE j \in i..Len(text) :
            ~inClass(class, text[j]) /\ \A k \in i..(j - 1) : inClass(class, text[k])) - i
  ELSE Len(text) - i + 1

\* the literal characters of a pattern found at position i (flagI: the i flag)
lit(text, i, chars, flagI) ==
  /\ i + Len(chars) - 1 <= Len(text)
  /\ \A k \in 1..Len(chars) :
       (IF flagI THEN foldCase(text[i + k - 1]) ELSE text[i + k - 1]) = chars[k]

\* SENSITIVE_PATTERNS, in the order of the array
SENSITIVE_PATTERNS == <<"home", "Users", "root", "email", "credential", "sk", "ghp">>

\* the length of the match of pattern p that starts at position i (0: none);
\* the quantifiers are greedy, and no class holds the character that must
\* follow it, so the longest run is the only candidate
matchLen(p, text, i) ==
  LET \* /\/home\/[^/\s]+/g and /\/Users\/[^/\s]+/g
      homeMatch(prefix) ==
        IF lit(text, i, prefix, FALSE) /\ run("[^/\\s]", text, i + Len(prefix)) >= 1
          THEN Len(prefix) + run("[^/\\s]", text, i + Len(prefix))
          ELSE 0
      \* /\/root\b/g
      rootMatch ==
        IF /\ lit(text, i, <<"/", "r", "o", "o", "t">>, FALSE)
           /\ (i + 5 > Len(text) \/ ~inClass("\\w", text[i + 5]))
          THEN 5
          ELSE 0
      \* /[A-Za-z0-9._%+-]+@[A-Za-z0-9.-]+/g
      local == run("[A-Za-z0-9._%+-]", text, i)
      domain == run("[A-Za-z0-9.-]", text, i + local + 1)
      emailMatch ==
        IF local >= 1 /\ i + local <= Len(text) /\ text[i + local] = "@" /\ domain >= 1
          THEN local + 1 + domain
          ELSE 0
      \* /(?:key|token|secret|password|api_key)=\S+/gi
      keys ==
        {k \in { <<"k", "e", "y">>, <<"t", "o", "k", "e", "n">>,
                 <<"s", "e", "c", "r", "e", "t">>,
                 <<"p", "a", "s", "s", "w", "o", "r", "d">>,
                 <<"a", "p", "i", "_", "k", "e", "y">> } :
           /\ lit(text, i, k, TRUE)
           /\ i + Len(k) <= Len(text)
           /\ text[i + Len(k)] = "="
           /\ run("\\S", text, i + Len(k) + 1) >= 1}
      credentialMatch ==
        IF keys = {} THEN 0
        ELSE LET k == CHOOSE k \in keys : TRUE
             IN Len(k) + 1 + run("\\S", text, i + Len(k) + 1)
      \* /sk-[A-Za-z0-9_-]{20,}/g
      skMatch ==
        IF lit(text, i, <<"s", "k", "-">>, FALSE) /\ run("[A-Za-z0-9_-]", text, i + 3) >= 20
          THEN 3 + run("[A-Za-z0-9_-]", text, i + 3)
          ELSE 0
      \* /ghp_[A-Za-z0-9]{36}/g
      ghpMatch ==
        IF /\ lit(text, i, <<"g", "h", "p", "_">>, FALSE)
           /\ run("[A-Za-z0-9]", text, i + 4) >= 36
          THEN 4 + 36
          ELSE 0
  IN CASE p = "home" -> homeMatch(<<"/", "h", "o", "m", "e", "/">>)
       [] p = "Users" -> homeMatch(<<"/", "U", "s", "e", "r", "s", "/">>)
       [] p = "root" -> rootMatch
       [] p = "email" -> emailMatch
       [] p = "credential" -> credentialMatch
       [] p = "sk" -> skMatch
       [] p = "ghp" -> ghpMatch

\* text.replace(pattern, '[REDACTED]') with the g flag, from position i on:
\* matches taken from left to right, each search starting where the last ended
RECURSIVE replaceFrom(_, _, _)
replaceFrom(text, p, i) ==
  IF i > Len(text) THEN <<>>
  ELSE IF matchLen(p, text, i) > 0
    THEN <<"[REDACTED]">> \o replaceFrom(text, p, i + matchLen(p, text, i))
  ELSE <<text[i]>> \o replaceFrom(text, p, i + 1)

\* for (const pattern of SENSITIVE_PATTERNS) sanitized = sanitized.replace(...)
RECURSIVE replaceEach(_, _)
replaceEach(sanitized, patterns) ==
  IF patterns = <<>> THEN sanitized
  ELSE replaceEach(replaceFrom(sanitized, Head(patterns), 1), Tail(patterns))

sanitizeErrorOutput(text) == replaceEach(text, SENSITIVE_PATTERNS)

\* ------------------------------------------------ callCodex: closure state
InitCall ==
  [ resolved     |-> FALSE,      \* let resolved = false
    promise      |-> "pending",  \* the promise returned by callCodex
    reported     |-> 0,          \* size shown in details, in hundredths of a MB
    by           |-> "none",     \* ghost: the callback whose safeResolve won
    resolveCalls |-> 0,          \* ghost: calls of resolve()
    releases     |-> 0,          \* ghost: calls of semaphore.release()
    timeoutId    |-> "null",     \* deadline timer: null / armed / fired / cleared
    killTimer    |-> "none",     \* inner 5000 ms timer: none / armed / fired
    child        |-> "none",     \* child: none / failed / running / exited / closed
    listeners    |-> FALSE,      \* child's own 'error'/'close' listeners attached
    killed       |-> FALSE,      \* child.killed
    killCalls    |-> {},         \* ghost: signals passed to child.kill()
    sigs         |-> {},         \* signals delivered to the child process
    closeCode    |-> "none",     \* ghost: code of the 'close' handled unresolved
    closeSignal  |-> "none",     \* ghost: signal of the 'close' handled unresolved
    stdoutSize   |-> 0,
    stderrSize   |-> 0,
    stdoutStored |-> 0,          \* bytes held in stdoutChunks
    stderrStored |-> 0,          \* bytes held in stderrChunks
    json         |-> TRUE,       \* options.json (every tool handler passes true)
    stdoutChunks |-> <<>>,       \* the texts of the chunks pushed
    stderrChunks |-> <<>>,
    arrivedOut   |-> <<>>,       \* ghost: all stdout text received, in arrival order
    fault        |-> FALSE,      \* a callback of the call threw (uncaught)
    launchError  |-> "none",     \* ghost: error.code the 'error' handler was run with
    stdinError   |-> "none",     \* error.code of the stdin 'error' handled unresolved
    success      |-> FALSE,      \* the result handed to resolve():
    events       |-> <<>>,
    finalMessage |-> <<>>,
    filesChanged |-> <<>>,
    commandsRun  |-> <<>>,
    details      |-> <<>> ]      \*   error.details (<<>>: none)

\* callCodex(prompt) with the default options: plain mode
PlainCall == [InitCall EXCEPT !.json = FALSE]

ChunkSizes == {1, MAX_OUTPUT_SIZE, MAX_OUTPUT_SIZE + 1}
\* a chunk: data.length and the text it holds
SizeChunks == {[size |-> n, text |-> <<"x">>] : n \in ChunkSizes}
Texts ==
  { <<"SP">>, <<"x">>, <<"Not Found">>, <<"permission denied">>, <<"Authentication">>,
    <<"k", "e", "y", "=", "v">>, <<"{completed agent_message m1}", "NL">>,
    <<"{completed file_change f1}", "NL">>, <<"{completed item:null}">> }
TextChunks == {[size |-> Len(t), text |-> t] : t \in Texts}
ExitCodes == {"null", "0", "1"}
ExitSignals == {"null", "SIGTERM", "SIGKILL", "SIGINT"}
SpawnErrors == {"ENOENT", "EACCES", "EOTHER"}
StdinErrors == {"EPIPE", "EOTHER"}
Keywords ==
  {"authentication", "unauthorized", "login required", "permission denied", "not found"}

\* child.kill(sig): the signal is delivered, and child.killed set, only while the
\* process is alive; on a process that is gone kill() returns false
kill_neverDelivers(r, sig) == r
kill(r, sig) ==
  IF r.child = "running"
    THEN [r EXCEPT !.killed = TRUE, !.sigs = @ \cup {sig}, !.killCalls = @ \cup {sig}]
    ELSE [r EXCEPT !.killCalls = @ \cup {sig}]

\* safeResolve: "if (resolved) return"
alreadyResolved_noGuard(r) == FALSE
alreadyResolved(r) == r.resolved

\* safeResolve: "if (semaphore) semaphore.release()", counted on the call
releaseIfSet_never(n) == n
releaseIfSet(n) == IF semaphore THEN n + 1 ELSE n

\* clearTimeout(timeoutId)
clearTimeout_noop(t) == t
clearTimeout(t) == IF t = "armed" THEN "cleared" ELSE t

\* types/index.ts: enum CodexErrorCode
CodexErrorCode ==
  { "NOT_FOUND", "PERMISSION_DENIED", "TIMEOUT", "OUTPUT_TOO_LARGE",
    "AUTHENTICATION_FAILED", "EXECUTION_FAILED", "STDIN_WRITE_FAILED", "UNKNOWN" }

\* the result objects built by the callbacks; code is error.code, and "SUCCESS"
\* stands for a result object without an error key
failure_flaggedSuccess(code, details) ==
  [ success |-> TRUE, code |-> code, details |-> details,
    events |-> <<>>, finalMessage |-> <<>>, filesChanged |-> <<>>, commandsRun |-> <<>> ]
failure(code, details) ==
  [ success |-> FALSE, code |-> code, details |-> details,
    events |-> <<>>, finalMessage |-> <<>>, filesChanged |-> <<>>, commandsRun |-> <<>> ]
successText(stdout) ==
  [ success |-> TRUE, code |-> "SUCCESS", details |-> <<>>,
    events |-> <<>>, finalMessage |-> stdout, filesChanged |-> <<>>, commandsRun |-> <<>> ]
successParsed(parsed) ==
  [ success |-> TRUE, code |-> "SUCCESS", details |-> <<>>,
    events |-> parsed.events, finalMessage |-> parsed.finalMessage,
    filesChanged |-> parsed.filesChanged, commandsRun |-> parsed.commandsRun ]

\* safeResolve: result.error?.details ? {...sanitizeErrorOutput(details)} : result
sanitized_raw(details) == details
sanitized(details) == IF details # <<>> THEN sanitizeErrorOutput(details) ELSE details

\* error.message of a system error with code e: a text of the runtime, which
\* may name a path
errorText(e) == <<"/", "r", "o", "o", "t", "/", "c", "o", "d", "e", "x", "SP", e>>

\* safeResolve: "if (!child.killed) child.kill('SIGTERM')"
killUnlessKilled_never(r) == r
killUnlessKilled(r) == IF ~r.killed THEN kill(r, "SIGTERM") ELSE r

\* safeResolve(result) on the closure state r; who names the calling callback
safeResolve(r, result, rep, who) ==
  IF alreadyResolved(r)
    THEN r
    ELSE LET k == killUnlessKilled(r)
             first == k.promise = "pending"
         IN [k EXCEPT !.resolved = TRUE,
                      !.timeoutId = clearTimeout(@),
                      !.listeners = FALSE,
                      !.releases = releaseIfSet(@),
                      !.resolveCalls = @ + 1,
                      !.promise = IF first THEN result.code ELSE @,
                      !.reported = IF first THEN rep ELSE @,
                      !.details = IF first THEN sanitized(result.details) ELSE @,
                      !.success = IF first THEN result.success ELSE @,
                      !.events = IF first THEN result.events ELSE @,
                      !.finalMessage = IF first THEN result.finalMessage ELSE @,
                      !.filesChanged = IF first THEN result.filesChanged ELSE @,
                      !.commandsRun = IF first THEN result.commandsRun ELSE @,
                      !.by = IF @ = "none" THEN who ELSE @]

\* `${(stdoutSize / 1024 / 1024).toFixed(2)}MB`, as a count of hundredths
toFixed2(size) == (200 * size + MAX_OUTPUT_SIZE) \div (2 * MAX_OUTPUT_SIZE)

\* the stdout test "stdoutSize > MAX_OUTPUT_SIZE"
overLimit_never(size) == FALSE
overLimit_atLimit(size) == size >= MAX_OUTPUT_SIZE
overLimit(size) == size > MAX_OUTPUT_SIZE

\* the stderr test "stderrSize <= MAX_OUTPUT_SIZE"
stderrKeeps_always(size) == TRUE
stderrKeeps(size) == size <= MAX_OUTPUT_SIZE

\* detectErrorCode(message), on the set of keywords the lower-cased text holds
keywordsIn(message) == {k \in Keywords : includes(message, k)}
detectErrorCode_notFoundFirst(kws) ==
  IF "not found" \in kws THEN "NOT_FOUND"
  ELSE IF "permission denied" \in kws THEN "PERMISSION_DENIED"
  ELSE IF {"authentication", "unauthorized", "login required"} \cap kws # {}
    THEN "AUTHENTICATION_FAILED"
  ELSE "EXECUTION_FAILED"
detectErrorCode(kws) ==
  IF {"authentication", "unauthorized", "login required"} \cap kws # {}
    THEN "AUTHENTICATION_FAILED"
  ELSE IF "permission denied" \in kws THEN "PERMISSION_DENIED"
  ELSE IF "not found" \in kws THEN "NOT_FOUND"
  ELSE "EXECUTION_FAILED"

\* the close handler's test "signal === 'SIGTERM' || signal === 'SIGKILL'"
signalKilled_anySignal(signal) == signal # "null"
signalKilled(signal) == signal \in {"SIGTERM", "SIGKILL"}

\* the close handler's test "code === 0"
exitedOk_orNull(code) == code \in {"0", "null"}
exitedOk(code) == code = "0"

\* the step's effect on the gate: release() runs iff safeResolve got past its guard
Commit(c, r, p) ==
  /\ call' = [call EXCEPT ![c] = r]
  /\ IF r.releases > call[c].releases
       THEN /\ current' = releaseCurrent
            /\ waitQueue' = releaseQueue
            /\ pc' = releasePc(p)
            /\ via' = releaseVia(via)
       ELSE /\ pc' = p
            /\ UNCHANGED <<current, waitQueue, via>>
  /\ UNCHANGED <<semaphore, max, arrival, nextTicket, emits, input, output>>

\* ------------------------------------------------ callCodex: operations
\* callCodex(prompt, options) up to "await semaphore.acquire()"
awaitAcquire(c) ==
  /\ pc[c] = "idle"
  /\ IF semaphore
       THEN acquire(c)
       ELSE /\ pc' = [pc EXCEPT ![c] = "granted"]
            /\ UNCHANGED <<current, waitQueue, arrival, nextTicket, via>>
  /\ UNCHANGED <<semaphore, max, call, chunksLeft, emits>>

CallCodex(c) ==
  /\ awaitAcquire(c)
  /\ UNCHANGED <<input, output>>

\* the promise executor: spawn, attach the handlers, arm the deadline timer, write
\* the prompt; spawnOk = the process was started, writeThrows = stdin.write threw
Executor(c) ==
  /\ pc[c] = "granted"
  /\ \E spawnOk \in BOOLEAN, writeThrows \in BOOLEAN :
       LET r == [call[c] EXCEPT !.child = IF spawnOk THEN "running" ELSE "failed",
                                !.listeners = TRUE,
                                !.timeoutId = "armed"]
       IN Commit(c,
                 IF writeThrows
                   THEN safeResolve(r, failure("STDIN_WRITE_FAILED", errorText("EOTHER")),
                                    0, "write")
                   ELSE r,
                 [pc EXCEPT ![c] = "spawned"])
  /\ UNCHANGED chunksLeft

\* child.stdout.on('data')
StdoutData(c) ==
  /\ pc[c] = "spawned"
  /\ call[c].child \in {"running", "exited"}
  /\ chunksLeft > 0
  /\ chunksLeft' = chunksLeft - 1
  /\ \E data \in emits :
       LET r == [call[c] EXCEPT !.stdoutSize = @ + data.size,
                                !.arrivedOut = @ \o data.text]
       IN Commit(c,
                 IF overLimit(r.stdoutSize)
                   THEN safeResolve(r, failure("OUTPUT_TOO_LARGE", <<"Output size">>),
                                    toFixed2(r.stdoutSize), "stdout")
                   ELSE [r EXCEPT !.stdoutStored = @ + data.size,
                                  !.stdoutChunks = Append(@, data.text)],
                 pc)

\* child.stderr.on('data')
StderrData(c) ==
  /\ pc[c] = "spawned"
  /\ call[c].child \in {"running", "exited"}
  /\ chunksLeft > 0
  /\ chunksLeft' = chunksLeft - 1
  /\ \E data \in emits :
       LET r == [call[c] EXCEPT !.stderrSize = @ + data.size]
       IN Commit(c,
                 IF stderrKeeps(r.stderrSize)
                   THEN [r EXCEPT !.stderrStored = @ + data.size,
                                  !.stderrChunks = Append(@, data.text)]
                   ELSE r,
                 pc)

\* the error handler's result, by error.code
launchFailure_alwaysUnknown(e) == failure("UNKNOWN", errorText(e))
launchFailure(e) ==
  IF e = "ENOENT"
    THEN failure("NOT_FOUND", <<"Install: npm install -g @openai/codex">>)
  ELSE IF e = "EACCES"
    THEN failure("PERMISSION_DENIED", <<"Check: chmod +x $(which codex)">>)
  ELSE failure("UNKNOWN", errorText(e))

\* child.on('error'): the launch failed; the process object then goes on to 'close'
ChildError(c) ==
  /\ pc[c] = "spawned"
  /\ call[c].child = "failed"
  /\ \E e \in SpawnErrors :
       LET r == [call[c] EXCEPT !.child = "exited"]
       IN Commit(c,
                 IF r.listeners
                   THEN safeResolve([r EXCEPT !.launchError = e], launchFailure(e),
                                    0, "error")
                   ELSE r,
                 pc)
  /\ UNCHANGED chunksLeft

\* the child process terminates (by itself, or by a signal from anyone)
ChildExit(c) ==
  /\ pc[c] = "spawned"
  /\ call[c].child = "running"
  /\ Commit(c, [call[c] EXCEPT !.child = "exited"], pc)
  /\ UNCHANGED chunksLeft

\* the close handler's errorMessage: stderr || stdout || 'Unknown error'
errorMessage(stderr, stdout) ==
  IF stderr # <<>> THEN stderr
  ELSE IF stdout # <<>> THEN stdout
  ELSE <<"Unknown error">>

\* child.on('close', (code, signal)). A second emission finds the listener
\* removed, or "if (resolved) return". In json mode the reducers may throw out of
\* the handler, before safeResolve is reached.
Close(c) ==
  /\ pc[c] = "spawned"
  /\ call[c].child \in {"exited", "closed"}
  /\ \E code \in ExitCodes, signal \in ExitSignals :
       LET q == [call[c] EXCEPT !.child = "closed"]
           r == [q EXCEPT !.closeCode = code, !.closeSignal = signal]
           stdout == trim(concat(q.stdoutChunks))
           stderr == trim(concat(q.stderrChunks))
           events == parseJsonlStream(stdout)
           message == errorMessage(stderr, stdout)
       IN IF ~q.listeners \/ q.resolved
            THEN Commit(c, q, pc)
          ELSE IF signalKilled(signal)
            THEN Commit(c, safeResolve(r, failure("TIMEOUT", <<>>), 0, "close"), pc)
          ELSE IF exitedOk(code)
            THEN IF q.json
                   THEN IF guardThrows(events)
                          THEN Commit(c, [r EXCEPT !.fault = TRUE], pc)
                          ELSE Commit(c,
                                 safeResolve(r, successParsed(buildCodexResult(events)),
                                             0, "close"),
                                 pc)
                   ELSE Commit(c, safeResolve(r, successText(stdout), 0, "close"), pc)
          ELSE Commit(c,
                 safeResolve(r, failure(detectErrorCode(keywordsIn(message)), message),
                             0, "close"),
                 pc)
  /\ UNCHANGED chunksLeft

\* the stdin handler's test "error.code === 'EPIPE'"
isEpipe_never(e) == FALSE
isEpipe(e) == e = "EPIPE"

\* child.stdin.on('error'): the stream reports its first error and is destroyed
StdinError(c) ==
  /\ pc[c] = "spawned"
  /\ call[c].stdinError = "none"
  /\ \E e \in StdinErrors :
       LET r == IF call[c].resolved THEN call[c] ELSE [call[c] EXCEPT !.stdinError = e]
       IN Commit(c,
                 IF isEpipe(e) THEN r
                 ELSE safeResolve(r, failure("STDIN_WRITE_FAILED", errorText(e)),
                                  0, "stdin"),
                 pc)
  /\ UNCHANGED chunksLeft

\* the deadline callback: setTimeout(() => {...}, timeout)
Timeout(c) ==
  /\ pc[c] = "spawned"
  /\ call[c].timeoutId = "armed"
  /\ LET r == [call[c] EXCEPT !.timeoutId = "fired"]
     IN Commit(c,
               IF ~r.resolved
                 THEN safeResolve([kill(r, "SIGTERM") EXCEPT !.killTimer = "armed"],
                                  failure("TIMEOUT", <<>>), 0, "timer")
                 ELSE r,
               pc)
  /\ UNCHANGED chunksLeft

\* the inner callback, 5000 ms later: if (!child.killed) child.kill('SIGKILL')
KillTimer(c) ==
  /\ pc[c] = "spawned"
  /\ call[c].killTimer = "armed"
  /\ LET r == [call[c] EXCEPT !.killTimer = "fired"]
     IN Commit(c, IF ~r.killed THEN kill(r, "SIGKILL") ELSE r, pc)
  /\ UNCHANGED chunksLeft

\* ------------------------------------------------ Spec: calls sharing the gate
\* the state once the server is constructed (initSemaphore(maxConcurrentProcesses))
Init ==
  /\ semaphore = TRUE
  /\ max \in 1..MaxConcurrent
  /\ current = 0
  /\ waitQueue = <<>>
  /\ pc = [c \in Calls |-> "idle"]
  /\ arrival = [c \in Calls |-> 0]
  /\ nextTicket = 1
  /\ via = [c \in Calls |-> "none"]
  /\ call = [c \in Calls |-> InitCall]
  /\ chunksLeft = SharedChunks
  /\ emits = SizeChunks
  /\ input = <<>>
  /\ output = <<>>

Next ==
  \/ \E c \in Active : CallCodex(c)
  \/ \E c \in Active : Executor(c)
  \/ \E c \in Active : StdoutData(c)
  \/ \E c \in Active : StderrData(c)
  \/ \E c \in Active : ChildError(c)
  \/ \E c \in Active : ChildExit(c)
  \/ \E c \in Active : Close(c)
  \/ \E c \in Active : StdinError(c)
  \/ \E c \in Active : Timeout(c)
  \/ \E c \in Active : KillTimer(c)

Spec == Init /\ [][Next]_vars

\* the event loop runs every continuation and every armed timer
FairSpec ==
  /\ Spec
  /\ \A c \in Calls : WF_vars(Executor(c)) /\ WF_vars(Timeout(c))

\* one call alone, with its gate
CallInit ==
  /\ semaphore = TRUE
  /\ max \in 1..MaxConcurrent
  /\ current = 0
  /\ waitQueue = <<>>
  /\ pc = [c \in {1} |-> "idle"]
  /\ arrival = [c \in {1} |-> 0]
  /\ nextTicket = 1
  /\ via = [c \in {1} |-> "none"]
  /\ call = [c \in {1} |-> InitCall]
  /\ chunksLeft = MaxChunks
  /\ emits = SizeChunks
  /\ input = <<>>
  /\ output = <<>>

CallSpec == CallInit /\ [][Next]_vars

\* one call alone, in plain or json mode, of a codex that writes short texts
TextInit ==
  /\ semaphore = TRUE
  /\ max = 1
  /\ current = 0
  /\ waitQueue = <<>>
  /\ pc = [c \in {1} |-> "idle"]
  /\ arrival = [c \in {1} |-> 0]
  /\ nextTicket = 1
  /\ via = [c \in {1} |-> "none"]
  /\ call \in [{1} -> {InitCall, PlainCall}]
  /\ chunksLeft = MaxTexts
  /\ emits = TextChunks
  /\ input = <<>>
  /\ output = <<>>

TextSpec == TextInit /\ [][Next]_vars

\* ------------------------------------------------ GateSpec: initSemaphore at any time
\* The module-level gate may be created, or replaced by a new one, while calls
\* are in flight. The model keeps the state of the gate the module variable
\* refers to: a replaced gate is referred to by nobody but the waiter closures in
\* its own queue, and release() is never called on it again.
\* The children of these calls write no output, so no 'data' event occurs.
\* input: the number of gates created so far (0: semaphore is null);
\* output: for every call, the gate it acquired its slot from (0: none)
GateInit ==
  /\ semaphore \in BOOLEAN
  /\ max = (IF semaphore THEN 1 ELSE 0)
  /\ current = 0
  /\ waitQueue = <<>>
  /\ pc = [c \in Calls |-> "idle"]
  /\ arrival = [c \in Calls |-> 0]
  /\ nextTicket = 1
  /\ via = [c \in Calls |-> "none"]
  /\ call = [c \in Calls |-> InitCall]
  /\ chunksLeft = 0
  /\ emits = {}
  /\ input = (IF semaphore THEN 1 ELSE 0)
  /\ output = [c \in Calls |-> 0]

\* initSemaphore(maxConcurrent): semaphore = new ProcessSemaphore(maxConcurrent)
InitSemaphoreInFlight ==
  /\ input < MaxGates
  /\ semaphore' = TRUE
  /\ max' \in 1..MaxConcurrent
  /\ current' = 0
  /\ waitQueue' = <<>>
  /\ input' = input + 1
  /\ UNCHANGED <<pc, arrival, nextTicket, via, call, chunksLeft, emits, output>>

\* callCodex up to its acquire, on the gate the module variable refers to now
GateCallCodex(c) ==
  /\ awaitAcquire(c)
  /\ output' = [output EXCEPT ![c] = IF semaphore THEN input ELSE 0]
  /\ UNCHANGED input

GateNext ==
  \/ InitSemaphoreInFlight
  \/ \E c \in Active : GateCallCodex(c)
  \/ \E c \in Active : Executor(c)
  \/ \E c \in Active : ChildError(c)
  \/ \E c \in Active : ChildExit(c)
  \/ \E c \in Active : Close(c)
  \/ \E c \in Active : StdinError(c)
  \/ \E c \in Active : Timeout(c)
  \/ \E c \in Active : KillTimer(c)

GateSpec == GateInit /\ [][GateNext]_vars

\* ------------------------------------------------ SemSpec: the gate alone
SemInit ==
  /\ semaphore = TRUE
  /\ max \in 1..SemMax
  /\ current = 0
  /\ waitQueue = <<>>
  /\ pc = [c \in Clients |-> "idle"]
  /\ arrival = [c \in Clients |-> 0]
  /\ nextTicket = 1
  /\ via = [c \in Clients |-> "none"]
  /\ call = [c \in Calls |-> InitCall]
  /\ chunksLeft = SharedChunks
  /\ emits = SizeChunks
  /\ input = <<>>
  /\ output = <<>>

SemAcquire(c) ==
  /\ pc[c] = "idle"
  /\ nextTicket <= MaxTickets
  /\ acquire(c)
  /\ UNCHANGED <<semaphore, max, call, chunksLeft, emits, input, output>>

\* release() called by a caller that holds a slot
SemRelease(c) ==
  /\ pc[c] = "granted"
  /\ current' = releaseCurrent
  /\ waitQueue' = releaseQueue
  /\ pc' = releasePc([pc EXCEPT ![c] = "idle"])
  /\ via' = releaseVia([via EXCEPT ![c] = "none"])
  /\ UNCHANGED <<semaphore, max, arrival, nextTicket, call, chunksLeft, emits, input, output>>

SemNext ==
  \/ \E c \in Clients : SemAcquire(c)
  \/ \E c \in Clients : SemRelease(c)

SemSpec == SemInit /\ [][SemNext]_vars

\* the gate with callers that call release() once they hold a slot
SemFairSpec ==
  /\ SemSpec
  /\ \A c \in Clients : WF_vars(SemRelease(c))

\* ------------------------------------------------ StraySpec: release() by anyone
\* release() called by a caller that holds no slot: the method has no guard
SemReleaseUnheld(c) ==
  /\ pc[c] = "idle"
  /\ current > 0 - MaxStray
  /\ current' = releaseCurrent
  /\ waitQueue' = releaseQueue
  /\ pc' = releasePc(pc)
  /\ via' = releaseVia(via)
  /\ UNCHANGED <<semaphore, max, arrival, nextTicket, call, chunksLeft, emits, input, output>>

StrayNext ==
  \/ \E c \in Clients : SemAcquire(c)
  \/ \E c \in Clients : SemRelease(c)
  \/ \E c \in Clients : SemReleaseUnheld(c)

StraySpec == SemInit /\ [][StrayNext]_vars

\* ------------------------------------------------ the gate from its construction
\* before initSemaphore runs the module's semaphore is null
NewInit ==
  /\ semaphore = FALSE
  /\ max = 0
  /\ current = 0
  /\ waitQueue = <<>>
  /\ pc = [c \in Clients |-> "idle"]
  /\ arrival = [c \in Clients |-> 0]
  /\ nextTicket = 1
  /\ via = [c \in Clients |-> "none"]
  /\ call = [c \in Calls |-> InitCall]
  /\ chunksLeft = SharedChunks
  /\ emits = SizeChunks
  /\ input \in 0..SemMax                  \* the maxConcurrent the gate is built with
  /\ output = <<>>

\* initSemaphore(maxConcurrent): semaphore = new ProcessSemaphore(maxConcurrent);
\* the constructor stores its argument
InitSemaphore ==
  /\ ~semaphore
  /\ semaphore' = TRUE
  /\ max' = input
  /\ UNCHANGED <<current, waitQueue, pc, arrival, nextTicket, via, call, chunksLeft,
                 emits, input, output>>

NewNext ==
  \/ InitSemaphore
  \/ \E c \in Clients : semaphore /\ SemAcquire(c)
  \/ \E c \in Clients : semaphore /\ SemRelease(c)

NewSpec == NewInit /\ [][NewNext]_vars

\* ------------------------------------------------ buildArgs
\* the options of a call: "none" stands for an absent (undefined) field
ApprovalModes == {"untrusted", "on-failure", "on-request", "never"}
SandboxModes == {"read-only", "workspace-write", "danger-full-access"}
WorkingDirs == {"", "/w", "w/sub"}
AllOptions ==
  [ json : BOOLEAN, fullAuto : BOOLEAN, skipGitRepoCheck : BOOLEAN,
    approvalMode : ApprovalModes \cup {"none"},
    sandbox : SandboxModes \cup {"none"},
    workingDir : WorkingDirs \cup {"none"} ]

\* JavaScript truthiness of an optional string
given(v) == v \notin {"none", ""}

\* "if (options.approvalMode) ... else if (options.fullAuto) ..."
approvalArgs_noElse(options) ==
  (IF given(options.approvalMode)
     THEN <<"--ask-for-approval", options.approvalMode>> ELSE <<>>)
    \o (IF options.fullAuto THEN <<"--full-auto">> ELSE <<>>)
approvalArgs(options) ==
  IF given(options.approvalMode) THEN <<"--ask-for-approval", options.approvalMode>>
  ELSE IF options.fullAuto THEN <<"--full-auto">>
  ELSE <<>>

buildArgs_cdBeforeSandbox(options) ==
  <<"exec">>
    \o (IF options.json THEN <<"--json">> ELSE <<>>)
    \o approvalArgs(options)
    \o (IF given(options.workingDir) THEN <<"--cd", options.workingDir>> ELSE <<>>)
    \o (IF given(options.sandbox) THEN <<"--sandbox", options.sandbox>> ELSE <<>>)
    \o (IF options.skipGitRepoCheck THEN <<"--skip-git-repo-check">> ELSE <<>>)
    \o <<"-">>
buildArgs(options) ==
  <<"exec">>
    \o (IF options.json THEN <<"--json">> ELSE <<>>)
    \o approvalArgs(options)
    \o (IF given(options.sandbox) THEN <<"--sandbox", options.sandbox>> ELSE <<>>)
    \o (IF given(options.workingDir) THEN <<"--cd", options.workingDir>> ELSE <<>>)
    \o (IF options.skipGitRepoCheck THEN <<"--skip-git-repo-check">> ELSE <<>>)
    \o <<"-">>

\* the call part of the state while an operation is exercised on its own
Idle ==
  /\ semaphore = TRUE
  /\ max = 1
  /\ current = 0
  /\ waitQueue = <<>>
  /\ pc = [c \in {1} |-> "idle"]
  /\ arrival = [c \in {1} |-> 0]
  /\ nextTicket = 1
  /\ via = [c \in {1} |-> "none"]
  /\ call = [c \in {1} |-> InitCall]
  /\ chunksLeft = 0
  /\ emits = {}

ArgsInit ==
  /\ Idle
  /\ input \in AllOptions
  /\ output = <<>>

BuildArgs ==
  /\ output = <<>>
  /\ output' = buildArgs(input)
  /\ UNCHANGED <<callVars, input>>

ArgsNext == BuildArgs

ArgsSpec == ArgsInit /\ [][ArgsNext]_vars

\* ------------------------------------------------ validateWorkingDir
\* A path string is a sequence of characters: "/" the separator, "." a dot, "SP"
\* a blank, every other token one letter of a name.
RECURSIVE segments(_)
segments(str) ==
  IF \E i \in 1..Len(str) : str[i] = "/"
    THEN LET i == CHOOSE j \in 1..Len(str) :
                    str[j] = "/" /\ \A k \in 1..(j - 1) : str[k] # "/"
         IN <<SubSeq(str, 1, i - 1)>> \o segments(SubSeq(str, i + 1, Len(str)))
    ELSE <<str>>

\* path normalization: "" and "." segments dropped, ".." removes its parent
RECURSIVE normalize(_, _)
normalize(segs, acc) ==
  IF segs = <<>> THEN acc
  ELSE IF Head(segs) \in {<<>>, <<".">>} THEN normalize(Tail(segs), acc)
  ELSE IF Head(segs) = <<".", ".">>
    THEN normalize(Tail(segs), IF acc = <<>> THEN acc ELSE SubSeq(acc, 1, Len(acc) - 1))
  ELSE normalize(Tail(segs), Append(acc, Head(segs)))

RECURSIVE joinSegs(_)
joinSegs(segs) ==
  IF segs = <<>> THEN <<>> ELSE <<"/">> \o Head(segs) \o joinSegs(Tail(segs))

absolute(segs) == IF segs = <<>> THEN <<"/">> ELSE joinSegs(segs)

\* process.cwd()
cwd == <<"/", "u">>

\* path.resolve(str): absolute and normalized, no trailing separator
resolve(str) ==
  absolute(normalize((IF str # <<>> /\ str[1] = "/" THEN <<>> ELSE segments(cwd))
                       \o segments(str), <<>>))

\* String.prototype.startsWith
startsWith(str, prefix) ==
  Len(prefix) <= Len(str) /\ SubSeq(str, 1, Len(prefix)) = prefix

\* the file system: directories by real path, and symbolic links (whose targets
\* are real paths)
Dirs ==
  { <<"/">>, <<"/", "u">>, <<"/", "u", "/", "p">>, <<"/", "u", "n">>,
    <<"/", "u", "n", "/", "p">>, <<"/", "e">> }
Links ==
  [ l \in {<<"/", "u", "/", "l">>, <<"/", "u", "/", "k">>, <<"/", "u", "/", "b">>} |->
      IF l = <<"/", "u", "/", "l">> THEN <<"/", "e">>
      ELSE IF l = <<"/", "u", "/", "k">> THEN <<"/", "u", "/", "p">>
      ELSE <<"/", "g">> ]                      \* a dangling link

\* the real path of an absolute normalized path: links followed segment by segment
RECURSIVE follow(_, _)
follow(real, segs) ==
  IF segs = <<>> THEN real
  ELSE LET next == (IF real = <<"/">> THEN <<>> ELSE real) \o <<"/">> \o Head(segs)
       IN follow(IF next \in DOMAIN Links THEN Links[next] ELSE next, Tail(segs))

realpath(path) == follow(<<"/">>, normalize(segments(path), <<>>))

\* fs.existsSync(path): the path leads, through links, to something that exists
existsSync(path) == realpath(path) \in Dirs

\* allowedRoots.some(root => realPath === resolve(root)
\*                           || realPath.startsWith(`${resolve(root)}/`))
isAllowed_noSeparator(realPath, allowedRoots) ==
  \E i \in 1..Len(allowedRoots) : startsWith(realPath, resolve(allowedRoots[i]))
isAllowed(realPath, allowedRoots) ==
  \E i \in 1..Len(allowedRoots) :
    \/ realPath = resolve(allowedRoots[i])
    \/ startsWith(realPath, resolve(allowedRoots[i]) \o <<"/">>)

Invalid(error) == [valid |-> FALSE, resolved |-> <<>>, error |-> error]

\* validateWorkingDir(inputPath, allowedRoots); realpathThrows: fs.realpathSync
\* fails (the path vanished, or may not be read)
validateWorkingDir_allowedFirst(inputPath, allowedRoots, realpathThrows) ==
  IF inputPath = <<>> \/ trim(inputPath) = <<>> THEN Invalid("Path is empty")
  ELSE IF ~isAllowed(realpath(resolve(inputPath)), allowedRoots)
    THEN Invalid("outside allowed directories")
  ELSE IF ~existsSync(resolve(inputPath)) THEN Invalid("does not exist")
  ELSE IF realpathThrows THEN Invalid("Cannot resolve real path")
  ELSE [valid |-> TRUE, resolved |-> realpath(resolve(inputPath)), error |-> "none"]
validateWorkingDir(inputPath, allowedRoots, realpathThrows) ==
  IF inputPath = <<>> \/ trim(inputPath) = <<>> THEN Invalid("Path is empty")
  ELSE IF ~existsSync(resolve(inputPath)) THEN Invalid("does not exist")
  ELSE IF realpathThrows THEN Invalid("Cannot resolve real path")
  ELSE IF ~isAllowed(realpath(resolve(inputPath)), allowedRoots)
    THEN Invalid("outside allowed directories")
  ELSE [valid |-> TRUE, resolved |-> realpath(resolve(inputPath)), error |-> "none"]

\* the paths and the lists of allowed roots tried
InputPaths ==
  { <<>>, <<"SP">>, <<"SP", "SP">>,
    <<"/">>, <<"/", "u">>, <<"/", "u", "/">>, <<"/", "u", "/", "p">>,
    <<"/", "u", "n">>, <<"/", "u", "n", "/", "p">>, <<"/", "e">>,
    <<"/", "u", "/", "l">>, <<"/", "u", "/", "k">>, <<"/", "u", "/", "b">>,
    <<"/", "u", "/", "m">>, <<"/", "u", "/", ".", ".", "/", "e">>,
    <<"/", "u", "/", "p", "/", ".", ".", "/", ".", ".", "/", "u", "n">>,
    <<"p">>, <<".", "/", "p">>, <<".", ".", "/", "e">> }
RootLists ==
  { <<>>, << <<"/", "u">> >>, << <<"/", "u", "/">> >>, << <<"/", "u", "/", "p">> >>,
    << <<"/", "e">>, <<"/", "u", "/", "p">> >>, << <<"/">> >>, << <<".">> >>,
    << <<"/", "u", "n", "/", ".", ".", "/", "e">> >> }

PathInit ==
  /\ Idle
  /\ input \in [path : InputPaths, roots : RootLists, realpathThrows : BOOLEAN]
  /\ output = <<>>

ValidateWorkingDir ==
  /\ output = <<>>
  /\ output' = validateWorkingDir(input.path, input.roots, input.realpathThrows)
  /\ UNCHANGED <<callVars, input>>

PathNext == ValidateWorkingDir

PathSpec == PathInit /\ [][PathNext]_vars

\* ------------------------------------------------ tools/execute.ts, tools/generate.ts
\* what a handler is called with: the tool input and the server configuration;
\* an absent working_dir is the empty string <<>>, an absent enum field "none"
WorkingDirInputs ==
  { <<>>, <<"SP">>, <<"/", "u", "/", "p">>, <<"/", "u", "/", "l">>,
    <<"/", "u", "/", "k">>, <<"/", "e">>, <<"/", "u", "/", "m">> }
ExecuteInputs ==
  [ tool : {"execute"}, working_dir : WorkingDirInputs,
    approval_mode : {"none", "never", "on-request"}, sandbox : {"none", "read-only"},
    allowFullAuto : BOOLEAN, allowedWorkingDirs : {<< <<"/", "u">> >>},
    realpathThrows : BOOLEAN ]
GenerateInputs ==
  [ tool : {"generate"}, working_dir : WorkingDirInputs,
    approval_mode : {"none"}, sandbox : {"none"},
    allowFullAuto : BOOLEAN, allowedWorkingDirs : {<< <<"/", "u">> >>},
    realpathThrows : BOOLEAN ]

\* handleExecute: config.security.allowFullAuto && !input.approval_mode
useFullAuto_ignoresApproval(in) == in.allowFullAuto
useFullAuto(in) == in.allowFullAuto /\ in.approval_mode = "none"

\* handleExecute: useFullAuto ? undefined : (input.approval_mode ?? 'on-failure')
effectiveApprovalMode(in) ==
  IF useFullAuto(in) THEN "none"
  ELSE IF in.approval_mode # "none" THEN in.approval_mode
  ELSE "on-failure"

\* the workingDir option handed to callCodex
passedDir_raw(in, pathCheck) == in.working_dir
passedDir(in, pathCheck) == pathCheck.resolved

Rejected(pathCheck) == [invoked |-> FALSE, error |-> pathCheck.error]
Invoked(options) == [invoked |-> TRUE, error |-> "none", options |-> options]

\* handleExecute(input, config) up to the point where callCodex awaits the gate
HandleExecute ==
  /\ output = <<>>
  /\ input.tool = "execute"
  /\ LET pathCheck == validateWorkingDir(input.working_dir, input.allowedWorkingDirs,
                                         input.realpathThrows)
     IN IF ~pathCheck.valid
          THEN /\ output' = Rejected(pathCheck)
               /\ UNCHANGED callVars
          ELSE /\ output' = Invoked([ json |-> TRUE,
                                      fullAuto |-> useFullAuto(input),
                                      approvalMode |-> effectiveApprovalMode(input),
                                      sandbox |-> IF input.sandbox # "none"
                                                    THEN input.sandbox
                                                    ELSE "workspace-write",
                                      workingDir |-> passedDir(input, pathCheck),
                                      skipGitRepoCheck |-> FALSE ])
               /\ awaitAcquire(1)
  /\ UNCHANGED input

\* handleGenerate(input, config, server), likewise
HandleGenerate ==
  /\ output = <<>>
  /\ input.tool = "generate"
  /\ LET pathCheck == validateWorkingDir(input.working_dir, input.allowedWorkingDirs,
                                         input.realpathThrows)
         resolvedWorkingDir == IF input.working_dir # <<>>
                                 THEN passedDir(input, pathCheck) ELSE <<>>
     IN IF input.working_dir # <<>> /\ ~pathCheck.valid
          THEN /\ output' = Rejected(pathCheck)
               /\ UNCHANGED callVars
          ELSE /\ output' = Invoked([ json |-> TRUE,
                                      fullAuto |-> FALSE,
                                      approvalMode |-> "none",
                                      sandbox |-> "none",
                                      workingDir |-> resolvedWorkingDir,
                                      skipGitRepoCheck |-> TRUE ])
               /\ awaitAcquire(1)
  /\ UNCHANGED input

HandlerInit ==
  /\ semaphore = TRUE
  /\ max = 1
  /\ current = 0
  /\ waitQueue = <<>>
  /\ pc = [c \in {1} |-> "idle"]
  /\ arrival = [c \in {1} |-> 0]
  /\ nextTicket = 1
  /\ via = [c \in {1} |-> "none"]
  /\ call = [c \in {1} |-> InitCall]
  /\ chunksLeft = SharedChunks
  /\ emits = SizeChunks
  /\ input \in ExecuteInputs \cup GenerateInputs
  /\ output = <<>>

\* a tool call and the events of the callCodex call it makes
HandlerNext ==
  \/ HandleExecute
  \/ HandleGenerate
  \/ \E c \in Active : Executor(c)
  \/ \E c \in Active : StdoutData(c)
  \/ \E c \in Active : StderrData(c)
  \/ \E c \in Active : ChildError(c)
  \/ \E c \in Active : ChildExit(c)
  \/ \E c \in Active : Close(c)
  \/ \E c \in Active : StdinError(c)
  \/ \E c \in Active : Timeout(c)
  \/ \E c \in Active : KillTimer(c)

HandlerSpec == HandlerInit /\ [][HandlerNext]_vars

\* ------------------------------------------------ server.ts: codex_execute
\* registerExecuteTool: the values of the sandbox enum of the input schema
sandboxOptions_always(allowDangerSandbox) ==
  {"read-only", "workspace-write", "danger-full-access"}
sandboxOptions(allowDangerSandbox) ==
  IF allowDangerSandbox
    THEN {"read-only", "workspace-write", "danger-full-access"}
    ELSE {"read-only", "workspace-write"}

\* the inputSchema of codex_execute applied to the arguments of a request
\* ("none": an optional field that is absent)
schemaAccepts(in) ==
  /\ Len(in.working_dir) >= 1                                   \* z.string().min(1)
  /\ in.approval_mode \in ApprovalModes \cup {"none"}
  /\ in.sandbox \in sandboxOptions(in.allowDangerSandbox) \cup {"none"}

\* the requests a client may send, and the configuration of the server
ExecuteRequests ==
  [ tool : {"execute"},
    working_dir : {<<>>, <<"SP">>, <<"/", "u", "/", "p">>, <<"/", "e">>},
    approval_mode : {"none", "never", "always"},
    sandbox : {"none", "read-only", "workspace-write", "danger-full-access", "full"},
    allowFullAuto : BOOLEAN, allowDangerSandbox : BOOLEAN,
    allowedWorkingDirs : {<< <<"/", "u">> >>},
    realpathThrows : BOOLEAN ]

\* a codex_execute request: the arguments are validated against the schema, and
\* the registered callback runs handleExecute on the arguments accepted
CodexExecute ==
  IF schemaAccepts(input)
    THEN HandleExecute
    ELSE /\ output = <<>>
         /\ output' = [invoked |-> FALSE, error |-> "Invalid arguments"]
         /\ UNCHANGED <<callVars, input>>

ServerInit ==
  /\ Idle
  /\ input \in ExecuteRequests
  /\ output = <<>>

ServerNext == CodexExecute

ServerSpec == ServerInit /\ [][ServerNext]_vars

\* ------------------------------------------------ sanitizeErrorOutput on its own
\* n times the character c
Repeat(c, n) == [i \in 1..n |-> c]

\* the texts sanitized: something sensitive, with text before and after it.
\* secret: the characters of the secret value (they occur nowhere else)
SanitizeInputs ==
  LET Sensitives ==
        { [kind |-> "credential", text |-> <<"k", "e", "y", "=", "v", "1">>,
           secret |-> {"v", "1"}],
          [kind |-> "credential", text |-> <<"T", "O", "K", "E", "N", "=", "v", "1">>,
           secret |-> {"v", "1"}],
          [kind |-> "credential",
           text |-> <<"a", "p", "i", "_", "k", "e", "y", "=", "v", "1">>,
           secret |-> {"v", "1"}],
          [kind |-> "credential",
           text |-> <<"p", "a", "s", "s", "w", "o", "r", "d", "=", "v", "1">>,
           secret |-> {"v", "1"}],
          [kind |-> "token", text |-> <<"s", "k", "-">> \o Repeat("9", 20),
           secret |-> {"9"}],
          [kind |-> "token", text |-> <<"s", "k", "-", "Z", "_">> \o Repeat("9", 20),
           secret |-> {"Z", "9"}],
          [kind |-> "token", text |-> <<"g", "h", "p", "_">> \o Repeat("7", 36),
           secret |-> {"7"}],
          [kind |-> "home", text |-> <<"/", "h", "o", "m", "e", "/", "b", "o", "b">>,
           secret |-> {}],
          [kind |-> "email", text |-> <<"a", "@", "b", ".", "c">>, secret |-> {}] }
      Befores ==
        { <<>>, <<"e", "r", "r", "SP">>, <<"u", "@">>, <<"/", "r", "o", "o", "t">>,
          <<"/", "h", "o", "m", "e", "/">>, <<"m", "y", "_">> }
      Afters ==
        { <<>>, <<"SP", "o", "k">>, <<"!">>, <<"/", "r", "o", "o", "t">>, <<"@", "b">>,
          <<"w">> }
  IN { [kind |-> s.kind, secret |-> s.secret, before |-> b, after |-> a,
        text |-> b \o s.text \o a] : s \in Sensitives, b \in Befores, a \in Afters }

SanitizeInit ==
  /\ Idle
  /\ input \in SanitizeInputs
  /\ output = <<>>

\* sanitizeErrorOutput(text)
Sanitize ==
  /\ output = <<>>
  /\ output' = [passes |-> 1, once |-> sanitizeErrorOutput(input.text),
                text |-> sanitizeErrorOutput(input.text)]
  /\ UNCHANGED <<callVars, input>>

\* sanitizeErrorOutput applied to a text it returned
SanitizeAgain ==
  /\ output # <<>>
  /\ output.passes = 1
  /\ output' = [output EXCEPT !.passes = 2, !.text = sanitizeErrorOutput(output.text)]
  /\ UNCHANGED <<callVars, input>>

SanitizeNext == Sanitize \/ SanitizeAgain

SanitizeSpec == SanitizeInit /\ [][SanitizeNext]_vars

\* ------------------------------------------------ parser.ts on its own
\* the lines of a stream: the text of the line, and the event it holds (none:
\* <<>>). A line holds an event when it is, between blanks, one JSON object with
\* a string type.
Lines ==
  LET EventLine(tok) == [text |-> <<tok>>, event |-> <<JSON_parse(tok)>>]
  IN { [text |-> <<>>, event |-> <<>>],                                \* empty
       [text |-> <<"SP">>, event |-> <<>>],                            \* blank
       [text |-> <<"x">>, event |-> <<>>],                             \* not JSON
       [text |-> <<"{typeless}">>, event |-> <<>>],                    \* no string type
       [text |-> <<"{turn.completed}", "SP", "{turn.completed}">>, event |-> <<>>],
       [text |-> <<"SP", "{turn.completed}", "SP">>,
        event |-> <<JSON_parse("{turn.completed}")>>],
       EventLine("{completed agent_message m1}"),
       EventLine("{completed agent_message m2}"),
       EventLine("{started agent_message m3}"),
       EventLine("{completed file_change f1}"),
       EventLine("{completed file_change f2}"),
       EventLine("{started file_change f3}"),
       EventLine("{completed command_execution c1}"),
       EventLine("{completed item:null}") }

\* lines.join('\n')
RECURSIVE join(_)
join(lines) ==
  IF Len(lines) = 1 THEN lines[1].text
  ELSE lines[1].text \o <<"NL">> \o join(Tail(lines))

ParseInit ==
  /\ Idle
  /\ input \in {[lines |-> ls, raw |-> join(ls)] :
                 ls \in UNION {[1..n -> Lines] : n \in 1..MaxLines}}
  /\ output = <<>>

\* parseJsonlStream(raw)
ParseJsonlStream ==
  /\ output = <<>>
  /\ output' = [op |-> "parseJsonlStream", events |-> parseJsonlStream(input.raw),
                threw |-> FALSE, value |-> <<>>]
  /\ UNCHANGED <<callVars, input>>

\* a reducer applied to the events parsed: its loop calls a guard on the item of
\* every item.completed event, and the guard throws on a null item
Reduce(op, value) ==
  /\ output # <<>>
  /\ output.op = "parseJsonlStream"
  /\ output' = IF guardThrows(output.events)
                 THEN [output EXCEPT !.op = op, !.threw = TRUE]
                 ELSE [output EXCEPT !.op = op, !.value = value]
  /\ UNCHANGED <<callVars, input>>

ExtractFinalMessage == Reduce("extractFinalMessage", extractFinalMessage(output.events))
ExtractFilesChanged == Reduce("extractFilesChanged", extractFilesChanged(output.events))
ExtractCommandsRun == Reduce("extractCommandsRun", extractCommandsRun(output.events))

ParseNext ==
  \/ ParseJsonlStream
  \/ ExtractFinalMessage
  \/ ExtractFilesChanged
  \/ ExtractCommandsRun

ParseSpec == ParseInit /\ [][ParseNext]_vars

\* ------------------------------------------------ claims on the gate
Holders == {c \in DOMAIN pc : pc[c] = "granted"}
Waiters == {c \in DOMAIN pc : pc[c] = "waiting"}

\* C2: for every max >= 1 and every interleaving of acquire() and release()
\* (release only by a holder), 0 <= activeCount <= max, and activeCount counts
\* exactly the callers that hold a slot.
C2_ActiveWithinMax ==
  /\ 0 <= activeCount
  /\ activeCount <= max
  /\ activeCount = Cardinality(Holders)

\* C2 witness: a full gate of the largest capacity, one slot of it handed over by
\* a release
C2_Witness_FullGate ==
  /\ activeCount = max
  /\ max = SemMax
  /\ \E c \in Holders : via[c] = "handoff"

C3_Step ==
  \A c \in DOMAIN pc :
    \* a waiter that gets the slot is the one that called acquire() earliest, and
    \* it is the only one
    /\ (pc[c] = "waiting" /\ pc'[c] = "granted") =>
         /\ \A d \in Waiters : arrival[c] <= arrival[d]
         /\ \A d \in Waiters \ {c} : pc'[d] = "waiting"
    \* an acquire() made while others wait is never served at once
    /\ (pc[c] = "idle" /\ pc'[c] = "granted") => Waiters = {}
    \* a release() made while waiters are queued grants the slot to one of them
    /\ (pc[c] = "granted" /\ pc'[c] = "idle" /\ Waiters # {}) =>
         \E d \in Waiters : pc'[d] = "granted"

\* C3: the gate is strictly FIFO: a release() with waiters queued grants exactly
\* one waiter, the earliest acquire(); an acquire() made while others wait never
\* gets a slot before them; waitingCount > 0 implies activeCount = max.
C3_StrictFifo ==
  /\ [](waitingCount > 0 => activeCount = max)
  /\ [][C3_Step]_vars

\* C3 witness: a release handed the slot to the first of two waiters
C3_Witness_Handoff ==
  \E b \in Holders, w \in Waiters :
    /\ via[b] = "handoff"
    /\ arrival[b] < arrival[w]

\* ------------------------------------------------ claims on callCodex
\* the calls whose executor has run
Spawned == {c \in Active : pc[c] = "spawned"}
Finalizing(c) == ~call[c].resolved /\ call'[c].resolved

C1_State ==
  \A c \in Active :
    /\ call[c].resolveCalls = (IF call[c].resolved THEN 1 ELSE 0)
    /\ call[c].resolved <=> call[c].promise # "pending"
    /\ call[c].resolved <=> call[c].by # "none"
    /\ call[c].resolved => c \in Spawned

C1_Step ==
  \A c \in Active :
    (call[c].resolved /\ call'[c] # call[c]) =>
      /\ call'[c].resolved
      /\ call'[c].promise = call[c].promise
      /\ call'[c].reported = call[c].reported
      /\ call'[c].by = call[c].by
      /\ call'[c].resolveCalls = call[c].resolveCalls
      /\ call'[c].releases = call[c].releases
      /\ UNCHANGED <<semaphore, max, current, waitQueue, pc>>

\* C1: whatever events occur and in whatever order, the promise of a call is
\* resolved exactly once, with the result of the first callback that reached
\* safeResolve; every later event of that call changes neither the result nor the
\* gate.
C1_ResolvedOnce ==
  /\ []C1_State
  /\ [][C1_Step]_vars

\* C1 witness: the deadline finalized the call, and a later stdout chunk then went
\* over the limit and reached safeResolve again
C1_Witness_LateOverflow ==
  \E c \in Active :
    /\ call[c].by = "timer"
    /\ call[c].stdoutSize > MAX_OUTPUT_SIZE
    /\ call[c].resolveCalls = 1
    /\ call[c].promise = "TIMEOUT"

C4_State ==
  /\ \A c \in Active :
       /\ call[c].releases = (IF call[c].resolved THEN 1 ELSE 0)
       /\ (c \in Spawned /\ ~call[c].resolved) => call[c].timeoutId = "armed"
  /\ current = Cardinality({c \in Active : pc[c] \in {"granted", "spawned"}
                                           /\ ~call[c].resolved})

C5_RunningWithinMax ==
  Cardinality({c \in Active : call[c].child = "running"}) <= max

C6_Step ==
  \A c \in Active :
    (call[c].timeoutId = "armed" /\ call'[c].timeoutId = "fired" /\ ~call[c].resolved) =>
      /\ call'[c].promise = "TIMEOUT"
      /\ call'[c].by = "timer"
      /\ "SIGTERM" \in call'[c].killCalls
      /\ call[c].child = "running" => ("SIGTERM" \in call'[c].sigs /\ call'[c].killed)

\* C6: when the deadline expires before any outcome is finalized, SIGTERM is sent
\* to the child and the call returns Failure TIMEOUT, never success or another code.
C6_DeadlineYieldsTimeout ==
  /\ [](\A c \in Active : call[c].by = "timer" => call[c].promise = "TIMEOUT")
  /\ [][C6_Step]_vars

\* C6 witness: the deadline finalized a call whose child was alive and got SIGTERM
C6_Witness_TimedOut ==
  \E c \in Active :
    /\ call[c].by = "timer"
    /\ call[c].promise = "TIMEOUT"
    /\ call[c].sigs = {"SIGTERM"}

\* C7 (as claimed): a child still alive when the 5000 ms timer runs has been sent
\* SIGKILL.
C7_SigkillAfterGrace ==
  \A c \in Active :
    (call[c].killTimer = "fired" /\ call[c].child = "running") =>
      "SIGKILL" \in call[c].sigs

C8_State ==
  \A c \in Active :
    /\ (c \in Spawned /\ ~call[c].resolved) => call[c].stdoutSize <= MAX_OUTPUT_SIZE
    /\ call[c].promise = "OUTPUT_TOO_LARGE" <=> call[c].by = "stdout"
    /\ call[c].promise = "OUTPUT_TOO_LARGE" =>
         /\ call[c].stdoutSize > MAX_OUTPUT_SIZE
         /\ call[c].reported >= toFixed2(MAX_OUTPUT_SIZE)
         /\ call[c].stdoutStored <= MAX_OUTPUT_SIZE

C8_Step ==
  \A c \in Active :
    (call'[c].stdoutSize # call[c].stdoutSize /\ ~call[c].resolved) =>
      IF call'[c].stdoutSize > MAX_OUTPUT_SIZE
        THEN /\ call'[c].promise = "OUTPUT_TOO_LARGE"
             /\ call'[c].reported = toFixed2(call'[c].stdoutSize)
        ELSE ~call'[c].resolved

\* C8: a call not yet finalized yields OUTPUT_TOO_LARGE at the first stdout chunk
\* that takes the cumulative count above 1,048,576, reporting a size of at least
\* the cap; a total of exactly 1,048,576 never triggers it.
C8_StdoutCap ==
  /\ []C8_State
  /\ [][C8_Step]_vars

\* C8 witness: the cap was exceeded by one byte, by the second chunk
C8_Witness_OneByteOver ==
  \E c \in Active :
    /\ call[c].promise = "OUTPUT_TOO_LARGE"
    /\ call[c].stdoutSize = MAX_OUTPUT_SIZE + 1
    /\ call[c].stdoutStored \in {1, MAX_OUTPUT_SIZE}

\* C9 (as claimed): once the bytes received on stderr exceed the cap the call is
\* finalized.
C9_StderrCapTerminates ==
  \A c \in Active : call[c].stderrSize > MAX_OUTPUT_SIZE => call[c].resolved

C9_Step ==
  \A c \in Active :
    call'[c].stderrSize # call[c].stderrSize =>
      /\ call'[c].resolved = call[c].resolved
      /\ call'[c].promise = call[c].promise
      /\ call'[c].stdoutStored = call[c].stdoutStored
      /\ call'[c].stderrStored =
           IF call'[c].stderrSize <= MAX_OUTPUT_SIZE
             THEN call[c].stderrStored + (call'[c].stderrSize - call[c].stderrSize)
             ELSE call[c].stderrStored

\* C9 (amended): stderr data never finalizes a call: a stderr chunk is stored only
\* while the cumulative stderr count including it is within the cap and is dropped
\* otherwise; OUTPUT_TOO_LARGE comes from stdout alone.
C9_StderrCapOnlyDrops ==
  /\ [](\A c \in Active :
          /\ call[c].stderrStored <= MAX_OUTPUT_SIZE
          /\ call[c].promise = "OUTPUT_TOO_LARGE" => call[c].stdoutSize > MAX_OUTPUT_SIZE)
  /\ [][C9_Step]_vars

\* C9 witness: stderr went over the cap and the call is still not finalized
C9_Witness_StderrOver ==
  \E c \in Active :
    /\ call[c].stderrSize > MAX_OUTPUT_SIZE
    /\ call[c].stderrStored < call[c].stderrSize
    /\ ~call[c].resolved

\* C10 (as claimed): a close that reports any signal, finalizing the call, yields
\* TIMEOUT.
C10_AnySignalIsTimeout ==
  \A c \in Active :
    (call[c].by = "close" /\ call[c].closeSignal # "null") =>
      call[c].promise = "TIMEOUT"

\* C10 (amended): a close that reports SIGTERM or SIGKILL, finalizing the call,
\* yields TIMEOUT whatever exit code comes with it; a close reporting any other
\* signal is classified by its exit code like a close without signal.
C10_TermOrKillIsTimeout ==
  \A c \in Active :
    call[c].by = "close" =>
      /\ call[c].closeSignal \in {"SIGTERM", "SIGKILL"} <=> call[c].promise = "TIMEOUT"
      /\ (call[c].closeSignal \notin {"SIGTERM", "SIGKILL"} /\ call[c].closeCode = "0")
           <=> call[c].promise = "SUCCESS"
      /\ (call[c].closeSignal \notin {"SIGTERM", "SIGKILL"} /\ call[c].closeCode # "0")
           <=> call[c].promise \in {"AUTHENTICATION_FAILED", "PERMISSION_DENIED",
                                    "NOT_FOUND", "EXECUTION_FAILED"}

\* C10 witness: a close reporting SIGTERM together with exit code 0 gave TIMEOUT
C10_Witness_SigtermCode0 ==
  \E c \in Active :
    /\ call[c].by = "close"
    /\ call[c].closeSignal = "SIGTERM"
    /\ call[c].closeCode = "0"
    /\ call[c].promise = "TIMEOUT"

\* ------------------------------------------------ claims on the outcome of close
\* C11 (as claimed): a close with exit status 0 and no signal, handled before any
\* other outcome is finalized, returns Success: in plain mode finalMessage is the
\* trimmed concatenation of all stdout chunks in arrival order and the three lists
\* are empty; in json mode the four fields are the parser's reduction of that text.
C11_CloseZeroIsSuccess ==
  \A c \in Active :
    (call[c].closeCode = "0" /\ call[c].closeSignal = "null") =>
      /\ call[c].promise = "SUCCESS"
      /\ call[c].by = "close"
      /\ ~call[c].json =>
           /\ call[c].finalMessage = trim(call[c].arrivedOut)
           /\ call[c].events = <<>>
           /\ call[c].filesChanged = <<>>
           /\ call[c].commandsRun = <<>>
      /\ call[c].json =>
           LET events == parseJsonlStream(trim(call[c].arrivedOut))
           IN /\ call[c].events = events
              /\ call[c].finalMessage = extractFinalMessage(events)
              /\ call[c].filesChanged = extractFilesChanged(events)
              /\ call[c].commandsRun = extractCommandsRun(events)

\* the error text of a call, from what it received: trimmed stderr, else trimmed
\* stdout, else the fixed text
C12_ErrorText(c) ==
  LET stderr == trim(concat(call[c].stderrChunks))
      stdout == trim(call[c].arrivedOut)
  IN IF stderr # <<>> THEN stderr ELSE IF stdout # <<>> THEN stdout ELSE <<"Unknown error">>

C12_Mentions(text, words) == \E i \in 1..Len(text) : text[i] \in words

\* the code the keywords of a text call for, in the claimed precedence
C12_Code(text) ==
  IF C12_Mentions(text, {"Authentication", "authentication"}) THEN "AUTHENTICATION_FAILED"
  ELSE IF C12_Mentions(text, {"permission denied"}) THEN "PERMISSION_DENIED"
  ELSE IF C12_Mentions(text, {"Not Found", "not found"}) THEN "NOT_FOUND"
  ELSE "EXECUTION_FAILED"

\* C12 (as claimed): a close with a non-zero exit status and no signal, handled
\* before any other outcome is finalized, returns a Failure whose code is chosen by
\* keyword precedence from the error text, and whose details are that error text.
C12_NonZeroDetailsAreErrorText ==
  \A c \in Active :
    (call[c].closeCode = "1" /\ call[c].closeSignal = "null") =>
      /\ call[c].by = "close"
      /\ call[c].promise = C12_Code(C12_ErrorText(c))
      /\ call[c].details = C12_ErrorText(c)

\* C12 (amended): such a close returns a Failure whose code is AUTHENTICATION_FAILED,
\* PERMISSION_DENIED, NOT_FOUND or EXECUTION_FAILED, chosen with that precedence from
\* the keywords of the error text (trimmed stderr, else trimmed stdout, else
\* 'Unknown error'), and whose details are the sanitized form of the error text.
C12_NonZeroIsClassifiedFailure ==
  \A c \in Active :
    (call[c].closeCode = "1" /\ call[c].closeSignal = "null") =>
      /\ call[c].by = "close"
      /\ call[c].promise = C12_Code(C12_ErrorText(c))
      /\ call[c].details = sanitizeErrorOutput(C12_ErrorText(c))
      /\ call[c].events = <<>> /\ call[c].finalMessage = <<>>

\* C12 witness: stdout mentions "not found", stderr "permission denied": the
\* stderr text and the code of higher precedence were taken
C12_Witness_StderrWins ==
  \E c \in Active :
    /\ call[c].closeCode = "1" /\ call[c].closeSignal = "null"
    /\ call[c].arrivedOut = <<"Not Found">>
    /\ call[c].details = <<"permission denied">>
    /\ call[c].promise = "PERMISSION_DENIED"

\* ------------------------------------------------ claims on launch and stdin errors
C13_State ==
  \A c \in Active :
    /\ call[c].launchError # "none" =>
         /\ call[c].by = "error"
         /\ call[c].details # <<>>
         /\ call[c].events = <<>> /\ call[c].finalMessage = <<>>
    /\ call[c].launchError = "ENOENT" =>
         /\ call[c].promise = "NOT_FOUND"
         /\ call[c].details = <<"Install: npm install -g @openai/codex">>
    /\ call[c].launchError = "EACCES" =>
         /\ call[c].promise = "PERMISSION_DENIED"
         /\ call[c].details = <<"Check: chmod +x $(which codex)">>
    /\ call[c].launchError = "EOTHER" => call[c].promise = "UNKNOWN"

\* the 'error' event of a call not yet finalized is the one that finalizes it
C13_Step ==
  \A c \in Active :
    (call[c].child = "failed" /\ call'[c].child # "failed" /\ ~call[c].resolved) =>
      /\ call'[c].by = "error"
      /\ call'[c].launchError \in SpawnErrors
      /\ call'[c].resolved

\* C13: a launch error handled before any other outcome is finalized returns
\* Failure with NOT_FOUND for ENOENT, PERMISSION_DENIED for EACCES and UNKNOWN for
\* any other error, each with non-empty details, a fixed hint for the first two.
C13_LaunchErrorCodes ==
  /\ []C13_State
  /\ [][C13_Step]_vars

\* C13 witness: EACCES was reported for a call nothing else had finalized
C13_Witness_Eacces ==
  \E c \in Active :
    /\ call[c].launchError = "EACCES"
    /\ call[c].promise = "PERMISSION_DENIED"
    /\ call[c].resolveCalls = 1

C14_State ==
  \A c \in Active :
    /\ call[c].by = "stdin" =>
         /\ call[c].stdinError = "EOTHER"
         /\ call[c].promise = "STDIN_WRITE_FAILED"
    /\ call[c].by = "write" => call[c].promise = "STDIN_WRITE_FAILED"
    /\ call[c].stdinError = "EOTHER" => call[c].by = "stdin"

\* an EPIPE on stdin changes nothing of the call and nothing of the gate
C14_Step ==
  \A c \in Active :
    (call[c].stdinError = "none" /\ call'[c].stdinError = "EPIPE") =>
      /\ call'[c] = [call[c] EXCEPT !.stdinError = "EPIPE"]
      /\ ~call'[c].resolved
      /\ UNCHANGED <<semVars, pc>>

\* C14 (as claimed): EPIPE never finalizes by itself and the outcome is then
\* decided by a later close, error or deadline event; any other stdin write error
\* before an outcome is finalized yields STDIN_WRITE_FAILED.
C14_EpipeThenCloseErrorOrDeadline ==
  /\ []C14_State
  /\ [][C14_Step]_vars
  /\ [](\A c \in Active :
          (call[c].stdinError = "EPIPE" /\ call[c].resolved) =>
            call[c].by \in {"close", "error", "timer"})

\* C14 (amended): EPIPE never finalizes by itself; the outcome is then decided by
\* a later close, launch error, deadline or stdout-overflow event; any other stdin
\* write error before an outcome is finalized yields STDIN_WRITE_FAILED.
C14_EpipeNeverFinalizes ==
  /\ []C14_State
  /\ [][C14_Step]_vars
  /\ [](\A c \in Active :
          (call[c].stdinError = "EPIPE" /\ call[c].resolved) =>
            call[c].by \in {"close", "error", "timer", "stdout"})

\* C14 witness: after an EPIPE the close handler classified the outcome
C14_Witness_EpipeThenClose ==
  \E c \in Active :
    /\ call[c].stdinError = "EPIPE"
    /\ call[c].by = "close"
    /\ call[c].promise = "SUCCESS"

\* ------------------------------------------------ claims on buildArgs
C15_Has(args, tok) == \E i \in 1..Len(args) : args[i] = tok

\* C15: the argument list never holds both '--full-auto' and '--ask-for-approval';
\* with an approval mode it holds '--ask-for-approval' followed by the mode and no
\* '--full-auto', whatever fullAuto is; '--full-auto' appears only when fullAuto is
\* set and no approval mode is given; neither appears when neither is set.
C15_ApprovalExcludesFullAuto ==
  output # <<>> =>
    /\ ~(C15_Has(output, "--full-auto") /\ C15_Has(output, "--ask-for-approval"))
    /\ input.approvalMode \in ApprovalModes =>
         /\ \E i \in 1..(Len(output) - 1) :
              output[i] = "--ask-for-approval" /\ output[i + 1] = input.approvalMode
         /\ ~C15_Has(output, "--full-auto")
    /\ C15_Has(output, "--full-auto") <=>
         (input.fullAuto /\ input.approvalMode = "none")
    /\ (~input.fullAuto /\ input.approvalMode = "none") =>
         (~C15_Has(output, "--full-auto") /\ ~C15_Has(output, "--ask-for-approval"))

\* C15 witness: both fullAuto and an approval mode were given
C15_Witness_BothGiven ==
  /\ output # <<>>
  /\ input.fullAuto
  /\ input.approvalMode = "never"
  /\ C15_Has(output, "--ask-for-approval")

C16_Opt(cond, toks) == IF cond THEN toks ELSE <<>>

\* C16: the argument list starts with 'exec', ends with '-', and holds between
\* them, in this order: '--json'; the approval or autonomy flag; '--sandbox' and
\* its mode; '--cd' and the working directory as given; '--skip-git-repo-check'.
\* With empty options it is exactly <<'exec', '-'>>.
C16_FixedOrder ==
  output # <<>> =>
    /\ output[1] = "exec"
    /\ output[Len(output)] = "-"
    /\ SubSeq(output, 2, Len(output) - 1) =
         C16_Opt(input.json, <<"--json">>)
           \o C16_Opt(input.approvalMode # "none",
                      <<"--ask-for-approval", input.approvalMode>>)
           \o C16_Opt(input.approvalMode = "none" /\ input.fullAuto, <<"--full-auto">>)
           \o C16_Opt(input.sandbox # "none", <<"--sandbox", input.sandbox>>)
           \o C16_Opt(input.workingDir \notin {"none", ""}, <<"--cd", input.workingDir>>)
           \o C16_Opt(input.skipGitRepoCheck, <<"--skip-git-repo-check">>)
    /\ (~input.json /\ ~input.fullAuto /\ ~input.skipGitRepoCheck
          /\ input.approvalMode = "none" /\ input.sandbox = "none"
          /\ input.workingDir = "none") => output = <<"exec", "-">>

\* C16 witness: every optional token is present
C16_Witness_AllFlags ==
  output = <<"exec", "--json", "--full-auto", "--sandbox", "read-only",
             "--cd", "w/sub", "--skip-git-repo-check", "-">>

\* ------------------------------------------------ claims on validateWorkingDir
C17_Usable ==
  /\ output # <<>>
  /\ input.path # <<>> /\ trim(input.path) # <<>>
  /\ existsSync(resolve(input.path))
  /\ ~input.realpathThrows

C17_Real == realpath(resolve(input.path))

\* C17: a non-empty existing path whose real path can be resolved is accepted iff
\* its symlink-resolved real path equals some normalized root or starts with that
\* root followed by the separator; a path lexically inside a root whose link
\* target is outside every root is rejected; root /u rejects /un/p and accepts /u/p.
C17_AcceptsIffUnderRoot ==
  C17_Usable =>
    /\ output.valid <=>
         \E i \in 1..Len(input.roots) :
           LET r == resolve(input.roots[i])
           IN \/ C17_Real = r
              \/ /\ Len(C17_Real) > Len(r)
                 /\ SubSeq(C17_Real, 1, Len(r) + 1) = r \o <<"/">>
    /\ output.valid => output.resolved = C17_Real
    /\ input.roots = << <<"/", "u">> >> =>
         /\ input.path = <<"/", "u", "/", "l">> => ~output.valid
         /\ input.path = <<"/", "u", "n", "/", "p">> => ~output.valid
         /\ input.path = <<"/", "u", "/", "p">> => output.valid

\* C17 witness: a link inside the allowed root that leads outside it was rejected
C17_Witness_LinkOutside ==
  /\ C17_Usable
  /\ input.path = <<"/", "u", "/", "l">>
  /\ input.roots = << <<"/", "u">> >>
  /\ output.error = "outside allowed directories"

\* C18: empty or blank input and paths that do not exist are rejected for every
\* list of roots; the checks run in the order empty, does not exist, cannot
\* resolve real path, outside allowed directories, and the first failing one
\* gives the reason; every Invalid result has an empty resolved path.
C18_CheckOrder ==
  output # <<>> =>
    LET blank == input.path = <<>> \/ trim(input.path) = <<>>
        exists == existsSync(resolve(input.path))
        under == \E i \in 1..Len(input.roots) :
                   LET r == resolve(input.roots[i])
                   IN \/ C17_Real = r
                      \/ /\ Len(C17_Real) > Len(r)
                         /\ SubSeq(C17_Real, 1, Len(r) + 1) = r \o <<"/">>
    IN /\ blank => output.error = "Path is empty"
       /\ (~blank /\ ~exists) => output.error = "does not exist"
       /\ (~blank /\ exists /\ input.realpathThrows) =>
            output.error = "Cannot resolve real path"
       /\ (~blank /\ exists /\ ~input.realpathThrows /\ ~under) =>
            output.error = "outside allowed directories"
       /\ output.error # "none" <=> ~output.valid
       /\ ~output.valid => output.resolved = <<>>

\* C18 witness: a path that does not exist and would lie outside the roots is
\* reported as not existing
C18_Witness_MissingOutside ==
  /\ output # <<>>
  /\ input.path = <<"/", "u", "/", "m">>
  /\ input.roots = << <<"/", "e">>, <<"/", "u", "/", "p">> >>
  /\ output.error = "does not exist"

\* ------------------------------------------------ claims on the tool handlers
\* the working directory is checked: always by execute, by generate when given
C19_Checked == input.tool = "execute" \/ input.working_dir # <<>>
C19_PathCheck ==
  validateWorkingDir(input.working_dir, input.allowedWorkingDirs, input.realpathThrows)

\* C19: when the working directory supplied is reported invalid, callCodex is
\* never invoked: no gate slot is taken and no child is launched; when it is valid
\* the working directory passed to callCodex is the canonical path returned by
\* validateWorkingDir, never the raw input.
C19_InvalidNeverInvokes ==
  /\ output = <<>> => (pc[1] = "idle" /\ current = 0 /\ call[1].child = "none")
  /\ (output # <<>> /\ C19_Checked /\ ~C19_PathCheck.valid) =>
       /\ ~output.invoked
       /\ pc[1] = "idle" /\ current = 0 /\ waitQueue = <<>>
       /\ call[1].child = "none"
  /\ (output # <<>> /\ C19_Checked /\ C19_PathCheck.valid) =>
       /\ output.invoked
       /\ output.options.workingDir = realpath(resolve(input.working_dir))
  /\ (output # <<>> /\ ~C19_Checked) =>
       (output.invoked /\ output.options.workingDir = <<>>)

\* C19 witness: a link inside the allowed root was given, its target was passed
\* on, and the child was launched
C19_Witness_LinkResolved ==
  /\ output # <<>>
  /\ input.working_dir = <<"/", "u", "/", "k">>
  /\ output.invoked
  /\ output.options.workingDir = <<"/", "u", "/", "p">>
  /\ call[1].child = "running"

\* C20: handleExecute asks for full-auto only when the configuration allows it and
\* the caller gave no approval_mode; otherwise fullAuto is false and the approval
\* mode passed is the caller's value, 'on-failure' by default; so exactly one of
\* fullAuto = true and approvalMode defined reaches callCodex.
C20_FullAutoOrApproval ==
  (output # <<>> /\ input.tool = "execute" /\ output.invoked) =>
    /\ output.options.fullAuto <=> (input.allowFullAuto /\ input.approval_mode = "none")
    /\ ~output.options.fullAuto =>
         output.options.approvalMode =
           (IF input.approval_mode = "none" THEN "on-failure" ELSE input.approval_mode)
    /\ output.options.fullAuto # (output.options.approvalMode # "none")

\* C20 witness: full-auto was allowed but the caller gave an approval mode
C20_Witness_ExplicitModeWins ==
  /\ output # <<>>
  /\ input.tool = "execute"
  /\ input.allowFullAuto
  /\ input.approval_mode = "never"
  /\ output.invoked
  /\ output.options.approvalMode = "never"
  /\ pc[1] = "spawned"

\* ------------------------------------------------ claims on the server
\* C21: a codex_execute request reaches callCodex with sandbox
\* 'danger-full-access' only on a server configured with allowDangerSandbox;
\* on a server without it a request naming that sandbox is refused by the input
\* schema: handleExecute is not run and no call is made.
C21_DangerOnlyIfAllowed ==
  output # <<>> =>
    /\ (output.invoked /\ output.options.sandbox = "danger-full-access"
          => input.allowDangerSandbox)
    /\ (input.sandbox = "danger-full-access" /\ ~input.allowDangerSandbox
          => /\ ~schemaAccepts(input)
             /\ output = [invoked |-> FALSE, error |-> "Invalid arguments"]
             /\ pc[1] = "idle")

\* a server that allows it passes the sandbox on to callCodex
C21_Witness_DangerAllowed ==
  /\ output # <<>>
  /\ input.sandbox = "danger-full-access"
  /\ input.allowDangerSandbox
  /\ output.invoked
  /\ output.options.sandbox = "danger-full-access"
  /\ pc[1] = "granted"

\* ------------------------------------------------ claims on the sanitizer
\* C22: sanitizeErrorOutput is idempotent: sanitizing a text it returned
\* gives that text back.
C22_Idempotent ==
  (output # <<>> /\ output.passes = 2) => output.text = output.once

\* C23: when the text holds a credential-style assignment or a provider token,
\* whatever precedes or follows it, no character of the secret value is left in
\* the text returned.
C23_Leaks(text, secret) == \E i \in 1..Len(text) : text[i] \in secret

C23_SecretRemoved ==
  (output # <<>> /\ input.kind \in {"credential", "token"})
    => ~C23_Leaks(output.once, input.secret)

\* ------------------------------------------------ claims on the details returned
\* the details text built by the callback that finalized call c, before
\* safeResolve (<<>>: the result has none)
C24_Raw(c) ==
  CASE call[c].by = "stdout" -> <<"Output size">>
    [] call[c].by = "error" -> launchFailure(call[c].launchError).details
    [] call[c].by = "close" ->
         IF signalKilled(call[c].closeSignal) THEN <<>> ELSE C12_ErrorText(c)
    [] call[c].by = "stdin" -> errorText(call[c].stdinError)
    [] call[c].by = "write" -> errorText("EOTHER")
    [] OTHER -> <<>>

\* C24: whichever callback finalizes the call, the details of a Failure returned
\* are the sanitized form of the details that callback built.
C24_DetailsSanitized ==
  \A c \in Active :
    call[c].promise \notin {"pending", "SUCCESS"} =>
      call[c].details = sanitizeErrorOutput(C24_Raw(c))

\* a failed run whose error text was a credential assignment
C24_Witness_Redacted ==
  \E c \in Active :
    /\ call[c].by = "close"
    /\ call[c].promise = "EXECUTION_FAILED"
    /\ C24_Raw(c) = <<"k", "e", "y", "=", "v">>
    /\ call[c].details = <<"[REDACTED]">>

\* ------------------------------------------------ claims on the parser
\* the events held by the lines, in the order of the lines
RECURSIVE C25_Events(_)
C25_Events(lines) ==
  IF lines = <<>> THEN <<>>
  ELSE C25_Events(SubSeq(lines, 1, Len(lines) - 1)) \o lines[Len(lines)].event

\* C25: parseJsonlStream returns, in the order of the lines, exactly the events
\* of the lines that hold one; an empty, blank, undecodable or typeless line is
\* dropped and does not keep the lines around it from being parsed.
C25_EventsOfGoodLines ==
  (output # <<>> /\ output.op = "parseJsonlStream") =>
    /\ ~output.threw
    /\ output.events = C25_Events(input.lines)

\* an event line, a line that is not JSON, a padded event line: two events
C25_Witness_AroundGarbage ==
  /\ output # <<>>
  /\ output.op = "parseJsonlStream"
  /\ input.raw = <<"{completed agent_message m1}", "NL", "x", "NL",
                   "SP", "{turn.completed}", "SP">>
  /\ Len(output.events) = 2
  /\ output.events[1].item.val = "m1"
  /\ output.events[2].type = "turn.completed"

\* the values (text, path or command) of the item.completed events of the lines
\* whose item is of the given type, in the order of the lines
RECURSIVE C26_Completed(_, _)
C26_Completed(lines, type) ==
  IF lines = <<>> THEN <<>>
  ELSE LET last == lines[Len(lines)].event
           rest == C26_Completed(SubSeq(lines, 1, Len(lines) - 1), type)
       IN IF /\ last # <<>>
             /\ last[1].type = "item.completed"
             /\ last[1].item.kind = "object"
             /\ last[1].item.type = type
            THEN Append(rest, last[1].item.val)
            ELSE rest

\* C26: extractFinalMessage returns the text of the last item.completed event
\* whose item is an agent_message, and the empty string when there is none;
\* no other event changes the result.
C26_LastCompletedMessage ==
  (output # <<>> /\ output.op = "extractFinalMessage") =>
    LET messages == C26_Completed(input.lines, "agent_message")
    IN /\ ~output.threw
       /\ output.value = IF messages = <<>> THEN <<>> ELSE <<messages[Len(messages)]>>

\* C27: extractFilesChanged returns the paths of the item.completed file_change
\* events, each distinct path once, ordered by first occurrence.
C27_First(seq, x) == CHOOSE i \in 1..Len(seq) : seq[i] = x /\ \A k \in 1..(i - 1) : seq[k] # x

C27_DistinctPathsInOrder ==
  (output # <<>> /\ output.op = "extractFilesChanged") =>
    LET paths == C26_Completed(input.lines, "file_change")
        files == output.value
    IN /\ ~output.threw
       /\ {files[i] : i \in 1..Len(files)} = {paths[i] : i \in 1..Len(paths)}
       /\ \A i, j \in 1..Len(files) :
            i < j => files[i] # files[j] /\ C27_First(paths, files[i]) < C27_First(paths, files[j])

\* C28: extractCommandsRun returns the command of every item.completed
\* command_execution event, in event order, repetitions kept.
C28_EveryCommandInOrder ==
  (output # <<>> /\ output.op = "extractCommandsRun") =>
    /\ ~output.threw
    /\ output.value = C26_Completed(input.lines, "command_execution")
    /\ Len(output.value) =
         Cardinality({i \in 1..Len(input.lines) :
                        input.lines[i].text = <<"{completed command_execution c1}">>})

\* ------------------------------------------------ claims on faults
\* C29: no callback of a call ends in an uncaught exception: a 'close' handled
\* while the call is not finalized always finalizes it, with a result of the
\* call's result type, and releases its gate slot.
C29_NoUncaughtFault ==
  \A c \in Active :
    /\ ~call[c].fault
    /\ call[c].closeCode # "none" =>
         /\ call[c].resolved
         /\ call[c].promise # "pending"
         /\ call[c].releases = 1

\* C30: a gate is never constructed with capacity 0.
C30_ZeroRejected == semaphore => max >= 1

\* ------------------------------------------------ claims C31..C40
\* C31: on a gate with max >= 1 whose holders all call release() in the end,
\* every acquire() is granted in the end: no caller waits in the queue forever.
C31_EveryAcquireGranted ==
  \A c \in Clients : (pc[c] = "waiting") ~> (pc[c] = "granted")

\* C31 witness: the caller of the last acquire() of the behaviour had to wait and
\* was handed its slot by a release; nobody is left in the queue
C31_Witness_LastWaiterServed ==
  \E c \in Holders :
    /\ via[c] = "handoff"
    /\ arrival[c] = MaxTickets
    /\ Waiters = {}
    /\ waitingCount = 0
\* C32 (as claimed): the deadline of a call runs from the invocation of
\* callCodex, so a call suspended at the gate has its deadline timer armed (and
\* its expiry can return TIMEOUT while the call waits).
C32_DeadlineRunsWhileWaiting ==
  \A c \in Active : pc[c] = "waiting" => call[c].timeoutId = "armed"
C33_State ==
  \A c \in Active :
    (call[c].resolved /\ call[c].by # "timer") =>
      /\ call[c].timeoutId = "cleared"
      /\ call[c].killTimer = "none"

C33_Step ==
  \A c \in Active :
    (call[c].resolved /\ call[c].by # "timer" /\ call'[c].timeoutId # call[c].timeoutId) =>
      /\ call'[c] = [call[c] EXCEPT !.timeoutId = call'[c].timeoutId]
      /\ UNCHANGED <<semaphore, max, current, waitQueue, pc>>

\* C33: finalizing a call cancels its deadline timer: once a path other than the
\* deadline has finalized the call, the timer is cleared and never runs, so it
\* sends no signal to the child, changes no result and leaves the gate alone.
C33_FinalizeCancelsDeadline ==
  /\ []C33_State
  /\ [][C33_Step]_vars

\* C33 witness: the stdout cap finalized a call whose child is still running, the
\* state in which a live deadline timer would go on to signal the child
C33_Witness_CancelledWhileRunning ==
  \E c \in Active :
    /\ call[c].by = "stdout"
    /\ call[c].child = "running"
    /\ call[c].timeoutId = "cleared"
    /\ call[c].killCalls = {"SIGTERM"}
\* C34: when callCodex returns a result, the child of the call has exited
\* already or has been sent a termination signal: on no outcome path is a
\* result returned while the child runs on unsignalled.
C34_ReturnedMeansExitedOrSignalled ==
  \A c \in Active :
    (call[c].promise # "pending" /\ call[c].child = "running") =>
      /\ call[c].killed
      /\ "SIGTERM" \in call[c].sigs

\* C34 witness: a stdin write failure returned the result while the child was
\* running; finalize sent it SIGTERM
C34_Witness_SignalledByFinalize ==
  \E c \in Active :
    /\ call[c].by \in {"stdin", "write"}
    /\ call[c].promise = "STDIN_WRITE_FAILED"
    /\ call[c].child = "running"
    /\ call[c].sigs = {"SIGTERM"}
\* C35: every result returned by callCodex is a discriminated outcome: success
\* is true exactly when no error is attached, and a Failure has empty events,
\* finalMessage, filesChanged and commandsRun and an error whose code is one of
\* the eight of the taxonomy.
C35_DiscriminatedOutcome ==
  \A c \in Active :
    call[c].promise # "pending" =>
      /\ call[c].success <=> call[c].promise = "SUCCESS"
      /\ call[c].promise # "SUCCESS" =>
           /\ call[c].promise \in CodexErrorCode
           /\ call[c].events = <<>>
           /\ call[c].finalMessage = <<>>
           /\ call[c].filesChanged = <<>>
           /\ call[c].commandsRun = <<>>
      /\ call[c].promise = "SUCCESS" => call[c].details = <<>>

\* C35 witness: a json-mode call whose child wrote events and then failed: the
\* Failure carries none of them
C35_Witness_FailureDropsEvents ==
  \E c \in Active :
    /\ call[c].json
    /\ call[c].promise = "EXECUTION_FAILED"
    /\ ~call[c].success
    /\ parseJsonlStream(trim(concat(call[c].stdoutChunks))) # <<>>
    /\ call[c].events = <<>>
\* C36: callCodex returns Success only if the close notification reported exit
\* status 0 and no terminating signal and was the first event to finalize the
\* call; whatever data, error, stdin-error and deadline events come before or
\* after, no other path yields Success. (The handler takes SIGTERM and SIGKILL
\* for terminating signals; the runtime reports a signal only with a null code.)
C36_SuccessOnlyByCloseZero ==
  \A c \in Active :
    call[c].promise = "SUCCESS" =>
      /\ call[c].by = "close"
      /\ call[c].resolveCalls = 1
      /\ call[c].closeCode = "0"
      /\ call[c].closeSignal \notin {"SIGTERM", "SIGKILL"}
      /\ (call[c].closeSignal # "null" <=> call[c].closeCode = "null") =>
           call[c].closeSignal = "null"
      /\ call[c].timeoutId = "cleared"
      /\ call[c].launchError = "none"
      /\ call[c].stdinError \in {"none", "EPIPE"}
      /\ call[c].stdoutSize <= MAX_OUTPUT_SIZE

\* C36 witness: Success by a close with status 0 and no signal, after stderr
\* data and an EPIPE on stdin had been handled without finalizing the call
C36_Witness_SuccessAfterNoise ==
  \E c \in Active :
    /\ call[c].promise = "SUCCESS"
    /\ call[c].by = "close"
    /\ call[c].closeSignal = "null"
    /\ call[c].stdinError = "EPIPE"
    /\ call[c].stderrChunks # <<>>
\* C37 (as claimed): with release() also called by callers that hold no slot,
\* activeCount never drops below 0 and never more than max callers hold a
\* slot at once.
C37_WithinBoundsAfterStrayRelease ==
  /\ activeCount >= 0
  /\ Cardinality(Holders) <= max
\* C38 (as claimed): a call releases the gate it acquired its slot from, so when
\* initSemaphore creates or replaces the gate while calls are in flight, the
\* counter of the new gate is never decremented by a call it did not admit
\* (it never goes below 0) and the calls it admitted and that are not finalized
\* number at most max.
C38_ReleasesOwnGate ==
  /\ current >= 0
  /\ Cardinality({c \in Active : /\ output[c] = input
                                 /\ output[c] # 0
                                 /\ pc[c] \in {"granted", "spawned"}
                                 /\ ~call[c].resolved}) <= max
C39_State ==
  \A c \in Active :
    /\ call[c].stdoutStored <= MAX_OUTPUT_SIZE
    /\ call[c].stderrStored <= MAX_OUTPUT_SIZE
    /\ call[c].stdoutStored <= call[c].stdoutSize
    /\ call[c].stderrStored <= call[c].stderrSize

C39_Step ==
  \A c \in Active :
    /\ call'[c].stdoutStored # call[c].stdoutStored =>
         /\ call'[c].stdoutSize <= MAX_OUTPUT_SIZE
         /\ call'[c].stdoutStored - call[c].stdoutStored
              = call'[c].stdoutSize - call[c].stdoutSize
    /\ call'[c].stderrStored # call[c].stderrStored =>
         /\ call'[c].stderrSize <= MAX_OUTPUT_SIZE
         /\ call'[c].stderrStored - call[c].stderrStored
              = call'[c].stderrSize - call[c].stderrSize

\* C39: whatever chunks arrive on either channel, before or after the call is
\* finalized, the bytes kept for stdout and the bytes kept for stderr never
\* exceed 1,048,576 each: a chunk is stored only if the cumulative count of its
\* channel, this chunk included, is within the cap.
C39_BuffersWithinCap ==
  /\ []C39_State
  /\ [][C39_Step]_vars

\* C39 witness: a call finalized by the failed prompt write, before any data;
\* the stdout chunk that came next filled the buffer to the cap and was stored,
\* the one after it was not
C39_Witness_FullAfterFinalize ==
  \E c \in Active :
    /\ call[c].by = "write"
    /\ call[c].stdoutStored = MAX_OUTPUT_SIZE
    /\ call[c].stdoutSize > MAX_OUTPUT_SIZE
\* a real path is the root, or lies below it: the names of the root are the
\* first names of the path
C40_AtOrBelow(real, root) ==
  LET names == normalize(segments(real), <<>>)
      rootNames == normalize(segments(root), <<>>)
  IN /\ Len(rootNames) <= Len(names)
     /\ SubSeq(names, 1, Len(rootNames)) = rootNames

\* C40 (as claimed): every existing path whose real path is an allowed root or
\* lies below one is accepted, also when the allowed root is '/': with '/'
\* among the roots every existing path is accepted.
C40_AcceptsBelowEveryRoot ==
  ( /\ output # <<>>
    /\ input.path # <<>> /\ trim(input.path) # <<>>
    /\ existsSync(resolve(input.path))
    /\ ~input.realpathThrows
    /\ \E i \in 1..Len(input.roots) :
         C40_AtOrBelow(realpath(resolve(input.path)), resolve(input.roots[i])) )
  => output.valid
====
